---------------------------- MODULE Spec2Model ----------------------------
(***************************************************************************)
(* llmux: capability-aware multiplexing proxy for LLM backends.            *)
(*                                                                         *)
(* The module models                                                       *)
(*   - Config.selectBackend and its helpers (src/src/config/index.js),     *)
(*   - the two request handlers' snapshot/override/restore of the shared   *)
(*     configuration (src/src/api/handlers/chat_completions.js and the     *)
(*     messages handler),                                                  *)
(*   - the failover orchestrator of OpenAIClient (_try_failover_request,   *)
(*     _try_failover_stream, the single-attempt paths).                    *)
(*                                                                         *)
(* Strings that the code inspects character by character (request model    *)
(* names, model_match patterns) are sequences of one-character strings.    *)
(***************************************************************************)
EXTENDS Integers, Sequences, FiniteSets, TLC

(***************************************************************************)
(* Bounds of the model.                                                    *)
(***************************************************************************)
\* longest catalog the selector is applied to
MaxCatalog == 2

(***************************************************************************)
(* Generic helpers.                                                        *)
(***************************************************************************)
Range(s) == {s[i] : i \in DOMAIN s}

MinOf(S) == CHOOSE x \in S : \A y \in S : x <= y

MaxOf(S) == CHOOSE x \in S : \A y \in S : x >= y

SeqsUpTo(S, n) == UNION {[1..k -> S] : k \in 0..n}

\* JavaScript null / undefined
None == "none"

(***************************************************************************)
(* Config: the catalog and the selector.                                   *)
(***************************************************************************)
\* String.prototype.toLowerCase on the alphabet of the model
Lower(c) ==
  CASE c = "O" -> "o"
    [] c = "A" -> "a"
    [] OTHER -> c

\* String.prototype.includes for sequences of characters
Includes(s, sub) ==
  \E i \in 0..(Len(s) - Len(sub)) : SubSeq(s, i + 1, i + Len(sub)) = sub

\* new RegExp(`^${regexPattern}$`, 'i').test(value), where regexPattern is the
\* pattern with * replaced by .* and ? by . ; an unescaped . of the pattern is
\* a regular-expression wildcard as well
RECURSIVE RegexTest(_, _)
RegexTest(p, v) ==
  IF p = <<>> THEN v = <<>>
  ELSE IF Head(p) = "*"
         THEN \E k \in 0..Len(v) : RegexTest(Tail(p), SubSeq(v, k + 1, Len(v)))
       ELSE /\ v # <<>>
            /\ \/ Head(p) \in {"?", "."}
               \/ Lower(Head(p)) = Lower(Head(v))
            /\ RegexTest(Tail(p), Tail(v))

\* Config._matchPattern
_matchPattern(pattern, value) ==
  IF pattern = <<"*">> THEN TRUE
  ELSE IF pattern = <<>> \/ value = <<>> THEN FALSE
  ELSE RegexTest(pattern, value)

\* Config._hasImageContent: some message (of any role) whose content is an
\* array holding a block of type image or image_url
_hasImageContent(request) ==
  \E i \in DOMAIN request.messages :
    /\ request.messages[i].isArray
    /\ \E j \in DOMAIN request.messages[i].blocks :
         request.messages[i].blocks[j] \in {"image", "image_url"}

\* Config._hasOpenAIThinking
_hasOpenAIThinking(request) ==
  \/ Includes(request.model, <<"o", "1">>)
  \/ Includes(request.model, <<"o", "3">>)
  \/ request.thinking = "enabled"
  \/ request.reasoning_mode

\* needsThinking of Config.selectBackend
needsThinkingOf(request) ==
  request.thinking = "enabled" \/ _hasOpenAIThinking(request)

\* Config.constructor: backend_configs, keyed by model; a later descriptor of
\* the same model overwrites an earlier one
backend_configs(backends) ==
  [m \in {backends[i].model : i \in DOMAIN backends} |->
     backends[MaxOf({i \in DOMAIN backends : backends[i].model = m})]]

\* the context of the fallback record of getBackendConfig
DefaultContext == 128000

\* Config.getBackendConfig: the record of backend_configs, which holds the
\* descriptor's own context (0 when it has none); the fallback record only
\* for a model that is not in the catalog
getBackendConfig(backends, model) ==
  IF model \in DOMAIN backend_configs(backends)
    THEN backend_configs(backends)[model]
    ELSE [model |-> model, context |-> DefaultContext, vision |-> FALSE,
          thinking |-> FALSE, model_match |-> <<>>]

\* the context check of selectBackend: a falsy context (absent or 0) is no limit
ContextMutExclusive(cfg, estimatedTokens) ==
  cfg.context # 0 /\ estimatedTokens >= cfg.context

ContextExceeded(cfg, estimatedTokens) ==
  cfg.context # 0 /\ estimatedTokens > cfg.context

\* the body of the scan loop of selectBackend: TRUE when no check says continue
BackendMatches(cfg, request, estimatedTokens) ==
  /\ ~ContextExceeded(cfg, estimatedTokens)
  /\ ~(_hasImageContent(request) /\ ~cfg.vision)
  /\ ~(needsThinkingOf(request) /\ ~cfg.thinking)
  /\ (Len(cfg.model_match) > 0 =>
        \E k \in DOMAIN cfg.model_match :
          _matchPattern(cfg.model_match[k], request.model))

\* the filter of selectBackend dropping the failed backends
AvailableMutNoFilter(backends, failedBackends) == backends

AvailableBackends(backends, failedBackends) ==
  SelectSeq(backends, LAMBDA b : b.model \notin failedBackends)

\* Config.selectBackend
selectBackend(backends, request, estimatedTokens, failedBackends) ==
  LET availableBackends == AvailableBackends(backends, failedBackends)
      ok == {i \in DOMAIN availableBackends :
               BackendMatches(getBackendConfig(backends, availableBackends[i].model),
                              request, estimatedTokens)}
  IN IF ok = {} THEN None ELSE availableBackends[MinOf(ok)].model

(***************************************************************************)
(* Inputs of the selector.                                                 *)
(***************************************************************************)
SelModels == {"A", "B"}

SelPatterns == {<<>>, << <<"o", "?">> >>, << <<"*">> >>}

SelDescriptors ==
  [model : SelModels, context : {0, 2}, vision : BOOLEAN, thinking : BOOLEAN,
   model_match : SelPatterns]

SelRequestModels == {<<>>, <<"o", "1">>, <<"O", "3">>}

SelMessages ==
  { << [role |-> "user", isArray |-> FALSE, blocks |-> <<>>] >>,
    << [role |-> "user", isArray |-> TRUE, blocks |-> <<"text", "image">>] >>,
    << [role |-> "assistant", isArray |-> TRUE, blocks |-> <<"image_url">>] >> }

SelRequests ==
  { [model |-> m, messages |-> ms, thinking |-> t, reasoning_mode |-> r] :
      m \in SelRequestModels, ms \in SelMessages,
      t \in {"absent", "enabled"}, r \in BOOLEAN }

\* request sizes: at a descriptor's context, above it, and above the default
SelTokens == {2, 3, DefaultContext + 1}

SelExcluded == {{}, {"A"}, {"A", "B"}}

(***************************************************************************)
(* The running server: catalog, request bodies, program constants.         *)
(***************************************************************************)
\* number of handler invocations that may overlap
NumHandlers == 2

\* upstream failures (other than day-limit errors) the environment may inject
MaxFaults == 1

\* day-limit errors the environment may inject
MaxDayLimit == 2

\* data lines one streaming request may yield to its caller
MaxChunks == 1

Handlers == 1..NumHandlers

\* the [[backend]] tables of the configuration file
Catalog ==
  << [model |-> "A", context |-> 2, vision |-> FALSE, thinking |-> FALSE,
      model_match |-> <<>>],
     [model |-> "B", context |-> 3, vision |-> TRUE, thinking |-> FALSE,
      model_match |-> <<>>],
     [model |-> "C", context |-> 3, vision |-> FALSE, thinking |-> TRUE,
      model_match |-> <<>>] >>

\* max_per_day and max_per_hour of the [[backend]] tables, which the
\* constructor copies into backend_configs; no other code reads them
RateLimits ==
  [m \in {"A", "B", "C"} |-> [max_per_day |-> 2, max_per_hour |-> 1]]

\* the configurations the server is started with: the full catalog, and a
\* single backend (no failover)
Catalogs == {Catalog, SubSeq(Catalog, 1, 1)}

\* bodies of incoming requests
PlainMessages == << [role |-> "user", isArray |-> FALSE, blocks |-> <<>>] >>

ImageMessages ==
  << [role |-> "user", isArray |-> TRUE, blocks |-> <<"text", "image">>] >>

Body(d, ms, t, st) ==
  [model |-> <<>>, messages |-> ms, thinking |-> t, reasoning_mode |-> FALSE,
   stream |-> st, dialect |-> d, tokens |-> 2]

\* text and image requests of both dialects, buffered and streamed, a
\* request that no backend of the catalog can serve (image and thinking), and
\* requests of both dialects for a model named o1
Bodies ==
  { Body("chat", PlainMessages, "absent", FALSE),
    Body("chat", PlainMessages, "absent", TRUE),
    Body("chat", ImageMessages, "absent", TRUE),
    Body("messages", ImageMessages, "absent", FALSE),
    Body("messages", PlainMessages, "absent", TRUE),
    Body("messages", ImageMessages, "enabled", FALSE),
    [Body("chat", PlainMessages, "absent", FALSE) EXCEPT !.model = <<"o", "1">>],
    [Body("messages", PlainMessages, "absent", FALSE) EXCEPT !.model = <<"o", "1">>] }

\* estimateTokens(body): the size of the body is an input of the model
estimateTokens(body) == body.tokens

\* max_cycles of _try_failover_request and _try_failover_stream
MaxCyclesMutOneMore == 10 + 1

max_cycles == 10

\* backoff_seq of _try_failover_request and _try_failover_stream
backoff_seq == <<2, 4, 8, 15, 15, 30, 30, 60>>

\* backoff_seq[Math.min(cycle, backoff_seq.length - 1)] (JavaScript indexes from 0)
Delay(cycle) ==
  backoff_seq[(IF cycle < Len(backoff_seq) - 1 THEN cycle ELSE Len(backoff_seq) - 1) + 1]

\* (Date.now() / 1000) + 300
CooldownMutBackwards(t) == t - 300

CooldownUntil(t) == t + 300

\* the status of an upstream error: a day-limit error is a 429, any other a 500
ErrStatus(kind) == IF kind = "dl" THEN 429 ELSE 500

(***************************************************************************)
(* State.                                                                  *)
(***************************************************************************)
VARIABLES
  sel_in,      \* the arguments of a selectBackend call
  sel_out,     \* its result ("pending" before the call)
  sel_again,   \* the result of a second call with the same arguments
  backends,    \* Config.backends, the catalog
  config,      \* the shared Config fields backend and failover
  cooldown,    \* OpenAIClient._failover_cooldown_until
  now,         \* Date.now() / 1000
  budget,      \* upstream failures the environment may still inject
  hs,          \* per handler invocation: its locals and its history
  sse,         \* one _create_stream call: network reads, decoder, buf, output
  auth,        \* Config.tokens and the credential headers of incoming requests
  shp,         \* one request body being shaped for its backend
  prs,         \* one backend string being parsed
  tr,          \* one exchange being translated between the dialects
  att,        \* one upstream attempt: its timer, its controller, its body
  ins,        \* the instrumentedStream wrapper of one chat stream
  pay,        \* the body _do_fetch builds for one POST
  tl,         \* the messages of one Anthropic request being converted
  armedBy      \* history: the backend whose error last armed the cooldown

selVars == <<sel_in, sel_out, sel_again>>

sysVars == <<backends, config, cooldown, now, budget, hs, armedBy>>

\* the state of the components that are run on their own
pureVars == <<sse, auth, shp, prs, tr, att, ins, pay, tl>>

vars ==
  <<sel_in, sel_out, sel_again, backends, config, cooldown, now, budget, hs, sse, auth, shp,
    armedBy, prs, tr, att, ins, pay, tl>>

\* Config.constructor: primary and failover of a catalog
StartupConfig(cat) ==
  [backend |-> cat[1].model,
   failover |-> [i \in 1..(Len(cat) - 1) |-> cat[i + 1].model]]

NoBody == CHOOSE b \in Bodies : TRUE

\* a handler invocation that has not started
IdleHandler ==
  [hpc |-> "idle", body |-> NoBody, selected |-> None,
   snap |-> [backend |-> None, failover |-> <<>>],
   status |-> 0, aborted |-> FALSE,
   mode |-> "none", opc |-> "none",
   all_backends |-> <<>>, idx |-> 0, cycle |-> 0, wakeAt |-> 0,
   primary |-> None, fo0 |-> <<>>, coolStart |-> FALSE,
   log |-> <<>>, sleeps |-> <<>>, n |-> 0, srcs |-> {}, midAt |-> 0,
   dlAt |-> 0, err |-> 0, msg |-> "", abortAt |-> "", listen |-> FALSE]

SelIdle ==
  /\ sel_in = [backends |-> <<>>, request |-> CHOOSE r \in SelRequests : TRUE,
               estimatedTokens |-> 0, failedBackends |-> {}]
  /\ sel_out = "unused"
  /\ sel_again = "unused"

\* no _create_stream call under way
SseIdle ==
  sse = [pc |-> "unused", reads |-> <<>>, k |-> 0, pending |-> "", buf |-> <<>>,
         out |-> <<>>, lines |-> <<>>, tail |-> FALSE]

\* LowerScheme: auth.toLowerCase() on the scheme of an Authorization header
LowerScheme(scheme) == IF scheme = "Bearer" THEN "bearer" ELSE scheme

\* getClientBearer(req): "" stands for null and for an absent header
getClientBearer(req) ==
  IF req.x_api_key # "" THEN req.x_api_key
  ELSE IF LowerScheme(req.authorization.scheme) = "bearer"
    THEN req.authorization.token
  ELSE ""

\* Config.validate_client_api_key(clientKey); tokens is the set of the values
\* of the [tokens] table
validate_client_api_key(tokens, clientKey) ==
  tokens = {} \/ clientKey \in tokens

\* requireClientAuth(req, config): 0 when it returns, 401 when it throws
requireClientAuth(req, tokens) ==
  IF tokens = {} THEN 0
  ELSE IF getClientBearer(req) = ""
          \/ ~validate_client_api_key(tokens, getClientBearer(req))
    THEN 401
  ELSE 0

NoCredentials == [x_api_key |-> "", authorization |-> [scheme |-> "", token |-> ""]]

\* JSON values: a scalar, an object (its entries in insertion order) or an array
Scalar(x) == [t |-> "s", v |-> x, e |-> <<>>]

Obj(entries) == [t |-> "o", v |-> "", e |-> entries]

Arr(items) == [t |-> "a", v |-> "", e |-> items]

\* no body is being shaped
ShpIdle ==
  shp = [pc |-> "unused", dialect |-> "chat", body |-> Obj(<<>>),
         selected |-> None,
         cfg |-> [key_delete |-> [set |-> FALSE, keys |-> {}],
                  key_add |-> [set |-> FALSE, map |-> <<>>],
                  key_rename |-> [set |-> FALSE, map |-> <<>>]],
         shaped |-> Obj(<<>>), final |-> Obj(<<>>), added |-> Obj(<<>>),
         orders |-> <<>>]

\* no backend string is being parsed
NotParsed(st) == [st |-> st, provider |-> <<>>, model |-> <<>>]

PrsIdle == prs = [s |-> <<>>, cfg |-> NotParsed("unused"), pcf |-> NotParsed("unused")]

\* message content: a string, or an array of content blocks
StrContent(text) == [kind |-> "string", text |-> text, blocks |-> <<>>]

ArrContent(blocks) == [kind |-> "array", text |-> "", blocks |-> blocks]

\* a translated response that has not been produced, or the thrown error
NoResponse(st) == [st |-> st, content |-> <<>>, stop_reason |-> "", output_tokens |-> 0]

\* the record of one upstream attempt of the client: pc is where _do_fetch and
\* its caller stand, timer the pending setTimeout, registered the entry of the
\* request id in activeControllers, aborted the state of the attempt's
\* AbortController; calls and ret are the history of cancel_request
NoAttempt(pc) ==
  [pc |-> pc, stream |-> FALSE, clk |-> 0, issuedAt |-> 0, timer |-> FALSE,
   registered |-> FALSE, aborted |-> FALSE, reads |-> 0, calls |-> 0,
   ret |-> FALSE, hit |-> FALSE]

\* what the instrumentation wrapper has captured: usageStats = null, or the
\* usage object of a frame with its completion_tokens and output_tokens
NoUsage == [set |-> FALSE, hasCt |-> FALSE, ct |-> 0, hasOt |-> FALSE, ot |-> 0]

\* no conversation is being converted
TlIdle == tl = [pc |-> "unused", messages |-> <<>>, out |-> <<>>]

\* no request body is being built
PayIdle ==
  pay = [pc |-> "unused", model |-> <<>>, streamDesired |-> FALSE,
         payload |-> Obj(<<>>), useResponses |-> FALSE, body |-> Obj(<<>>)]

\* no stream is being instrumented
InsIdle ==
  ins = [pc |-> "unused", up |-> <<>>, end |-> "normal", pos |-> 0,
         out |-> <<>>, usageStats |-> NoUsage, logs |-> <<>>]

\* no attempt is being followed
AttIdle == att = NoAttempt("unused")

\* no exchange is being translated
TrIdle ==
  tr = [pc |-> "unused",
        req |-> [system |-> "", content |-> StrContent("")],
        resp |-> [choices |-> 0, hasContent |-> FALSE, content |-> "",
                  tool_calls |-> 0, finish_reason |-> "", hasUsage |-> FALSE,
                  completion_tokens |-> 0],
        oreq |-> <<>>, cres |-> NoResponse("unused")]

\* a server without a [tokens] table
AuthIdle == auth = [tokens |-> {}, req |-> NoCredentials]

SysIdle ==
  /\ backends = <<>>
  /\ config = [backend |-> None, failover |-> <<>>]
  /\ cooldown = 0
  /\ armedBy = None
  /\ now = 0
  /\ budget = [err |-> 0, dl |-> 0]
  /\ hs = [h \in Handlers |-> IdleHandler]

(***************************************************************************)
(* The handlers: snapshot, override and restore of the shared config.      *)
(***************************************************************************)
\* the override of the backend alone, the failover list left as it was
OverrideMutKeepFailover(cur, selectedBackend) ==
  [backend |-> selectedBackend, failover |-> cur.failover]

\* config.backend = selectedBackend;
\* config.failover = [originalBackend, ...originalFailover].filter(b => b !== selectedBackend)
Override(cur, selectedBackend) ==
  [backend |-> selectedBackend,
   failover |-> SelectSeq(<<cur.backend>> \o cur.failover,
                          LAMBDA b : b # selectedBackend)]

\* config.backend = originalBackend; config.failover = originalFailover
\* on the paths that return a response
RestoreOnReturn(cur, snapshot) == snapshot

\* the same two assignments on the paths that throw
RestoreMutSkipped(cur, snapshot) == cur

RestoreOnError(cur, snapshot) == snapshot

(***************************************************************************)
(* The failover orchestrator, as updates of one invocation's record.       *)
(***************************************************************************)
CurBackend(r) == r.all_backends[r.idx]

\* history of a failed attempt: midAt is the number of the first attempt that
\* failed after it had yielded data to the caller, dlAt the number of the first
\* attempt on the invocation's primary that failed with a day-limit error
NoteFailure(r, kind) ==
  [r EXCEPT !.midAt = IF @ = 0 /\ r.n > 0 THEN Len(r.log) ELSE @,
            !.dlAt = IF @ = 0 /\ kind = "dl" /\ CurBackend(r) = r.primary
                       THEN Len(r.log) ELSE @]

\* the for loop reaches all_backends[i] and _do_fetch issues the POST; its
\* abort listener is of use when a signal was passed (streams only) and has not
\* fired yet
Issue(r, i) ==
  [r EXCEPT !.idx = i, !.opc = "fetch", !.n = 0,
            !.log = Append(@, r.all_backends[i]),
            !.listen = r.body.stream /\ ~r.aborted]

\* the cycle counter is not advanced
EndCycleMutNoCount(r, t) ==
  [r EXCEPT !.opc = "sleep", !.sleeps = Append(@, Delay(1)),
            !.wakeAt = t + Delay(1)]

\* after the for loop: cycle += 1, then the 503 or the backoff sleep
EndCycle(r, t) ==
  LET c == r.cycle + 1
  IN IF c >= max_cycles
       THEN [r EXCEPT !.cycle = c, !.opc = "failed", !.err = 503]
       ELSE [r EXCEPT !.cycle = c, !.opc = "sleep",
                      !.sleeps = Append(@, Delay(c)),
                      !.wakeAt = t + Delay(c)]

\* the condition of the day-limit branch of the catch block
DayLimitOnPrimary(r, kind, cfg) == CurBackend(r) = cfg.backend /\ kind = "dl"

\* the catch block tries the backend that failed once more
OnFailureMutSame(r, kind, cfg, t) ==
  IF DayLimitOnPrimary(r, kind, cfg)
    THEN EndCycle([r EXCEPT !.all_backends = cfg.failover], t)
  ELSE IF r.idx < Len(r.all_backends)
    THEN Issue(r, r.idx)
  ELSE EndCycle(r, t)

\* the catch block of the for loop
OnFailure(r, kind, cfg, t) ==
  IF DayLimitOnPrimary(r, kind, cfg)
    THEN EndCycle([r EXCEPT !.all_backends = cfg.failover], t)
  ELSE IF r.idx < Len(r.all_backends)
    THEN Issue(r, r.idx + 1)
  ELSE EndCycle(r, t)

\* create_chat_completion / create_chat_completion_stream up to the first
\* await: the failover variant reads the shared config and the cooldown, the
\* single-attempt variant issues the POST to openai_request.model
StartClient(r, cfg, t, cd) ==
  IF Len(cfg.failover) > 0
    THEN [r EXCEPT !.mode = "failover", !.opc = "count",
                   !.primary = cfg.backend, !.fo0 = cfg.failover,
                   !.coolStart = (t < cd),
                   !.all_backends = IF t < cd THEN cfg.failover
                                    ELSE <<cfg.backend>> \o cfg.failover]
    ELSE Issue([r EXCEPT !.mode = "single", !.primary = r.selected,
                         !.all_backends = <<r.selected>>], 1)

\* the single-attempt variant throws a 503 of its own
FailMutWrapped(r, kind, cfg, t) ==
  IF r.mode = "failover"
    THEN OnFailure(NoteFailure(r, kind), kind, cfg, t)
    ELSE [NoteFailure(r, kind) EXCEPT !.opc = "failed", !.err = 503]

\* an error leaves the client: in the failover variant through the catch
\* block, in the single-attempt variant rethrown as it is
FailAttempt(r, kind, cfg, t) ==
  IF r.mode = "failover"
    THEN OnFailure(NoteFailure(r, kind), kind, cfg, t)
    ELSE [NoteFailure(r, kind) EXCEPT !.opc = "failed", !.err = ErrStatus(kind)]

(***************************************************************************)
(* Actions of the running server.                                          *)
(***************************************************************************)
\* handler: body read, backend selected, config snapshotted and overridden,
\* then the await of countTokensFast
HandlerStart(h) ==
  /\ hs[h].hpc = "idle"
  /\ requireClientAuth(auth.req, auth.tokens) = 0
  /\ \E body \in Bodies :
       LET selectedBackend ==
             selectBackend(backends, body, estimateTokens(body), {})
       IN /\ selectedBackend # None
          /\ hs' = [hs EXCEPT ![h] = [@ EXCEPT !.hpc = "tokens", !.body = body,
                                               !.selected = selectedBackend,
                                               !.snap = config]]
          /\ config' = Override(config, selectedBackend)
  /\ UNCHANGED <<selVars, pureVars, armedBy, backends, cooldown, now, budget>>

\* the message of the 400: hasImages, then needsThinking, which the chat
\* handler computes with _hasOpenAIThinking and the messages handler without
RejectMessage(body) ==
  LET hasImages == _hasImageContent(body)
      needsThinking ==
        IF body.dialect = "chat"
          THEN body.thinking = "enabled" \/ _hasOpenAIThinking(body)
          ELSE body.thinking = "enabled"
  IN IF hasImages THEN "llmux: no model supports vision"
     ELSE IF needsThinking THEN "llmux: no model supports thinking"
     ELSE "llmux: no suitable backend available"

\* handler: no backend qualifies, 400
HandlerReject(h) ==
  /\ hs[h].hpc = "idle"
  /\ requireClientAuth(auth.req, auth.tokens) = 0
  /\ \E body \in Bodies :
       /\ selectBackend(backends, body, estimateTokens(body), {}) = None
       /\ hs' = [hs EXCEPT ![h] = [@ EXCEPT !.hpc = "returned", !.body = body,
                                            !.status = 400,
                                            !.msg = RejectMessage(body)]]
  /\ UNCHANGED <<selVars, pureVars, armedBy, backends, config, cooldown, now, budget>>

\* the caller's cancellation token fires while the handler counts tokens
ClientAbort(h) ==
  /\ hs[h].hpc = "tokens"
  /\ ~hs[h].aborted
  /\ hs' = [hs EXCEPT ![h].aborted = TRUE]
  /\ UNCHANGED <<selVars, pureVars, armedBy, backends, config, cooldown, now, budget>>

\* handler: req.signal.aborted after the token count: 499
Dispatch499(h) ==
  /\ hs[h].hpc = "tokens"
  /\ hs[h].aborted
  /\ hs' = [hs EXCEPT ![h] = [@ EXCEPT !.hpc = "returned", !.status = 499]]
  /\ config' = RestoreOnError(config, hs[h].snap)
  /\ UNCHANGED <<selVars, pureVars, armedBy, backends, cooldown, now, budget>>

\* handler, stream: sseResponse starts pulling the generator, which runs as
\* far as its first await; then the finally block restores the config and the
\* handler returns the response
DispatchStream(h) ==
  /\ hs[h].hpc = "tokens"
  /\ ~hs[h].aborted
  /\ hs[h].body.stream
  /\ hs' = [hs EXCEPT ![h] =
              [StartClient(@, config, now, cooldown) EXCEPT
                 !.hpc = "returned", !.status = 200]]
  /\ config' = RestoreOnReturn(config, hs[h].snap)
  /\ UNCHANGED <<selVars, pureVars, armedBy, backends, cooldown, now, budget>>

\* handler, buffered: create_chat_completion is awaited
DispatchBuffered(h) ==
  /\ hs[h].hpc = "tokens"
  /\ ~hs[h].aborted
  /\ ~hs[h].body.stream
  /\ hs' = [hs EXCEPT ![h] =
              [StartClient(@, config, now, cooldown) EXCEPT !.hpc = "awaiting"]]
  /\ UNCHANGED <<selVars, pureVars, armedBy, backends, config, cooldown, now, budget>>

\* orchestrator: _calculate_token_count resolves, the first cycle starts
AfterCount(h) ==
  /\ hs[h].opc = "count"
  /\ hs' = [hs EXCEPT ![h] = Issue(@, 1)]
  /\ UNCHANGED <<selVars, pureVars, armedBy, backends, config, cooldown, now, budget>>

\* buffered: the attempt in flight succeeds; the handler logs, restores the
\* config and returns 200
BufferedOk(h) ==
  /\ hs[h].opc = "fetch"
  /\ hs[h].hpc = "awaiting"
  /\ hs' = [hs EXCEPT ![h] =
              [@ EXCEPT !.opc = "done", !.hpc = "returned", !.status = 200]]
  /\ config' = RestoreOnReturn(config, hs[h].snap)
  /\ UNCHANGED <<selVars, pureVars, armedBy, backends, cooldown, now, budget>>

\* stream: the upstream answers 2xx, _create_stream starts reading the body
StreamOpen(h) ==
  /\ hs[h].opc = "fetch"
  /\ hs[h].body.stream
  /\ hs' = [hs EXCEPT ![h].opc = "read"]
  /\ UNCHANGED <<selVars, pureVars, armedBy, backends, config, cooldown, now, budget>>

\* stream: a data line is yielded to the caller
StreamChunk(h) ==
  /\ hs[h].opc = "read"
  /\ hs[h].n < MaxChunks
  /\ hs' = [hs EXCEPT ![h] = [@ EXCEPT !.n = @ + 1,
                                       !.srcs = @ \cup {CurBackend(hs[h])}]]
  /\ UNCHANGED <<selVars, pureVars, armedBy, backends, config, cooldown, now, budget>>

\* stream: the upstream body ends, the generator returns
StreamEnd(h) ==
  /\ hs[h].opc = "read"
  /\ hs' = [hs EXCEPT ![h].opc = "done"]
  /\ UNCHANGED <<selVars, pureVars, armedBy, backends, config, cooldown, now, budget>>

\* the attempt in flight fails: a non-2xx answer or a network error before the
\* response (opc = "fetch"), or a read error in the middle of a streamed body
\* (opc = "read"); kind "dl" is an error whose text contains "day limit
\* exceeded". A failure that leaves the client while the handler awaits it is
\* caught by the handler, which restores the config and rethrows.
AttemptFail(h, kind) ==
  /\ \/ hs[h].opc = "fetch"
     \/ hs[h].opc = "read" /\ kind = "err"
  /\ budget[kind] > 0
  /\ LET r == FailAttempt(hs[h], kind, config, now)
         thrown == r.opc = "failed" /\ r.hpc = "awaiting"
     IN /\ hs' = [hs EXCEPT ![h] =
                    IF thrown THEN [r EXCEPT !.hpc = "returned", !.status = r.err]
                    ELSE r]
        /\ config' = IF thrown THEN RestoreOnError(config, hs[h].snap) ELSE config
        /\ cooldown' = IF hs[h].mode = "failover"
                          /\ DayLimitOnPrimary(hs[h], kind, config)
                         THEN CooldownUntil(now) ELSE cooldown
        /\ armedBy' = IF hs[h].mode = "failover"
                         /\ DayLimitOnPrimary(hs[h], kind, config)
                        THEN CurBackend(hs[h]) ELSE armedBy
  /\ budget' = [budget EXCEPT ![kind] = @ - 1]
  /\ UNCHANGED <<selVars, pureVars, backends, now>>

\* orchestrator: Bun.sleep resolves, the next cycle starts
Wake(h) ==
  /\ hs[h].opc = "sleep"
  /\ now >= hs[h].wakeAt
  /\ hs' = [hs EXCEPT ![h] = Issue(@, 1)]
  /\ UNCHANGED <<selVars, pureVars, armedBy, backends, config, cooldown, now, budget>>

\* time passes, up to the next instant at which a sleep or the cooldown ends
Timers == {hs[h].wakeAt : h \in {k \in Handlers : hs[k].opc = "sleep"}} \cup {cooldown}

Tick ==
  /\ \E t \in Timers : t > now /\ now' = t
  /\ UNCHANGED <<selVars, pureVars, armedBy, backends, config, cooldown, budget, hs>>

Init ==
  /\ SelIdle
  /\ PrsIdle
  /\ TrIdle
  /\ AttIdle
  /\ InsIdle
  /\ PayIdle
  /\ TlIdle
  /\ SseIdle
  /\ AuthIdle
  /\ ShpIdle
  /\ backends \in Catalogs
  /\ config = StartupConfig(backends)
  /\ cooldown = 0
  /\ armedBy = None
  /\ now = 0
  /\ budget = [err |-> MaxFaults, dl |-> MaxDayLimit]
  /\ hs = [h \in Handlers |-> IdleHandler]

Next ==
  \/ \E h \in Handlers :
       \/ HandlerStart(h)
       \/ HandlerReject(h)
       \/ ClientAbort(h)
       \/ Dispatch499(h)
       \/ DispatchStream(h)
       \/ DispatchBuffered(h)
       \/ AfterCount(h)
       \/ BufferedOk(h)
       \/ StreamOpen(h)
       \/ StreamChunk(h)
       \/ StreamEnd(h)
       \/ \E kind \in {"err", "dl"} : AttemptFail(h, kind)
       \/ Wake(h)
  \/ Tick

Spec == Init /\ [][Next]_vars

\* one request alone, with enough upstream failures for all its cycles
InitRetry ==
  /\ SelIdle
  /\ PrsIdle
  /\ TrIdle
  /\ AttIdle
  /\ InsIdle
  /\ PayIdle
  /\ TlIdle
  /\ SseIdle
  /\ AuthIdle
  /\ ShpIdle
  /\ backends = Catalog
  /\ config = StartupConfig(backends)
  /\ cooldown = 0
  /\ armedBy = None
  /\ now = 0
  /\ budget = [err |-> max_cycles * Len(Catalog) + Len(Catalog), dl |-> 1]
  /\ hs = [h \in Handlers |->
             IF h = 1 THEN IdleHandler ELSE [IdleHandler EXCEPT !.hpc = "off"]]

SpecRetry == InitRetry /\ [][Next]_vars

(***************************************************************************)
(* Cancellation: one request whose caller may disconnect at any time.      *)
(***************************************************************************)
\* the caller's cancellation token fires after dispatch: while the handler
\* awaits the buffered response, or while the returned stream is running
ClientAbortLate(h) ==
  /\ ~hs[h].aborted
  /\ \/ hs[h].hpc = "awaiting"
     \/ /\ hs[h].hpc = "returned" /\ hs[h].body.stream
        /\ hs[h].opc \in {"count", "fetch", "read", "sleep"}
  /\ hs' = [hs EXCEPT ![h] =
              [@ EXCEPT !.aborted = TRUE,
                        !.abortAt = IF hs[h].hpc = "awaiting" THEN "awaiting"
                                    ELSE "streaming"]]
  /\ UNCHANGED <<selVars, pureVars, armedBy, backends, config, cooldown, now, budget>>

\* _do_fetch's listener aborts the attempt in flight: the fetch or the read of
\* the body rejects and the error takes the path of any other failure
AbortInFlight(h) ==
  /\ hs[h].aborted
  /\ hs[h].listen
  /\ hs[h].opc \in {"fetch", "read"}
  /\ hs' = [hs EXCEPT ![h] = FailAttempt(@, "err", config, now)]
  /\ UNCHANGED <<selVars, pureVars, armedBy, backends, config, cooldown, now, budget>>

\* upstream failures injected into the request under cancellation
CancelFaults == 3

InitCancel ==
  /\ SelIdle
  /\ PrsIdle
  /\ TrIdle
  /\ AttIdle
  /\ InsIdle
  /\ PayIdle
  /\ TlIdle
  /\ SseIdle
  /\ AuthIdle
  /\ ShpIdle
  /\ backends = Catalog
  /\ config = StartupConfig(backends)
  /\ cooldown = 0
  /\ armedBy = None
  /\ now = 0
  /\ budget = [err |-> CancelFaults, dl |-> 1]
  /\ hs = [h \in Handlers |->
             IF h = 1 THEN IdleHandler ELSE [IdleHandler EXCEPT !.hpc = "off"]]

NextCancel ==
  \/ \E h \in Handlers : ClientAbortLate(h) \/ AbortInFlight(h)
  \/ Next

SpecCancel == InitCancel /\ [][NextCancel]_vars

(***************************************************************************)
(* Client authentication: one request against a server with a token table. *)
(***************************************************************************)
\* handler: requireClientAuth throws, the request is answered 401
HandlerUnauthorized(h) ==
  /\ hs[h].hpc = "idle"
  /\ requireClientAuth(auth.req, auth.tokens) = 401
  /\ hs' = [hs EXCEPT ![h] = [@ EXCEPT !.hpc = "returned", !.status = 401]]
  /\ UNCHANGED <<selVars, pureVars, armedBy, backends, config, cooldown, now, budget>>

\* [tokens] tables: none, and one token
AuthTables == {{}, {"t1"}}

\* credential headers: absent, a token of the table, another value; the
\* Authorization scheme in either case, and a scheme that is not Bearer
AuthRequests ==
  [x_api_key : {"", "t1", "bad"},
   authorization : {[scheme |-> "", token |-> ""]} \cup
                   [scheme : {"Bearer", "bearer", "Basic"}, token : {"t1", "bad"}]]

InitAuth ==
  /\ SelIdle
  /\ PrsIdle
  /\ TrIdle
  /\ AttIdle
  /\ InsIdle
  /\ PayIdle
  /\ TlIdle
  /\ SseIdle
  /\ ShpIdle
  /\ auth \in [tokens : AuthTables, req : AuthRequests]
  /\ backends = Catalog
  /\ config = StartupConfig(backends)
  /\ cooldown = 0
  /\ armedBy = None
  /\ now = 0
  /\ budget = [err |-> 1, dl |-> 1]
  /\ hs = [h \in Handlers |->
             IF h = 1 THEN IdleHandler ELSE [IdleHandler EXCEPT !.hpc = "off"]]

NextAuth == (\E h \in Handlers : HandlerUnauthorized(h)) \/ Next

SpecAuth == InitAuth /\ [][NextAuth]_vars

(***************************************************************************)
(* The request shaper: deleteKeys, addKeys, renameKeys and the handler's   *)
(* composition of them.                                                    *)
(***************************************************************************)
\* keys of the entries of an object
Keys(entries) == {entries[i].k : i \in DOMAIN entries}

\* result[key] = value: an existing key keeps its place, a new one comes last
ObjSet(entries, key, value) ==
  IF key \in Keys(entries)
    THEN [i \in DOMAIN entries |->
            IF entries[i].k = key THEN [k |-> key, v |-> value] ELSE entries[i]]
    ELSE Append(entries, [k |-> key, v |-> value])

\* a run of assignments result[k] = v, in order
RECURSIVE SetAll(_, _)
SetAll(result, entries) ==
  IF entries = <<>> THEN result
  ELSE SetAll(ObjSet(result, Head(entries).k, Head(entries).v), Tail(entries))

\* an object or array that the deletion leaves empty is dropped from its parent
RECURSIVE DeleteMutPrune(_, _)
DeleteMutPrune(obj, keysToDelete) ==
  IF obj.t = "s" THEN obj
  ELSE IF obj.t = "a"
    THEN Arr([i \in DOMAIN obj.e |-> DeleteMutPrune(obj.e[i], keysToDelete)])
  ELSE LET kept == SelectSeq(obj.e, LAMBDA en : en.k \notin keysToDelete)
           done == [i \in DOMAIN kept |->
                      [k |-> kept[i].k,
                       v |-> DeleteMutPrune(kept[i].v, keysToDelete)]]
       IN Obj(SelectSeq(done, LAMBDA en : en.v.t = "s" \/ en.v.e # <<>>))

\* deleteKeys(obj, keysToDelete)
RECURSIVE deleteKeys(_, _)
deleteKeys(obj, keysToDelete) ==
  IF obj.t = "s" THEN obj
  ELSE IF obj.t = "a"
    THEN Arr([i \in DOMAIN obj.e |-> deleteKeys(obj.e[i], keysToDelete)])
  ELSE LET kept == SelectSeq(obj.e, LAMBDA en : en.k \notin keysToDelete)
       IN Obj([i \in DOMAIN kept |->
                 [k |-> kept[i].k, v |-> deleteKeys(kept[i].v, keysToDelete)]])

\* the additions are assigned after the original entries
RECURSIVE AddMutOverwrite(_, _)
AddMutOverwrite(obj, keyAddMap) ==
  IF obj.t = "s" THEN obj
  ELSE IF obj.t = "a"
    THEN Arr([i \in DOMAIN obj.e |-> AddMutOverwrite(obj.e[i], keyAddMap)])
  ELSE Obj(SetAll([i \in DOMAIN obj.e |->
                     [k |-> obj.e[i].k,
                      v |-> IF obj.e[i].v.t # "s"
                              THEN AddMutOverwrite(obj.e[i].v, keyAddMap)
                              ELSE obj.e[i].v]],
                  keyAddMap))

\* addKeys(obj, keyAddMap): the additions are assigned first, then the
\* original entries, nested objects and arrays being processed on the way
RECURSIVE addKeys(_, _)
addKeys(obj, keyAddMap) ==
  IF obj.t = "s" THEN obj
  ELSE IF obj.t = "a"
    THEN Arr([i \in DOMAIN obj.e |-> addKeys(obj.e[i], keyAddMap)])
  ELSE Obj(SetAll(SetAll(<<>>, keyAddMap),
                  [i \in DOMAIN obj.e |->
                     [k |-> obj.e[i].k,
                      v |-> IF obj.e[i].v.t # "s"
                              THEN addKeys(obj.e[i].v, keyAddMap)
                              ELSE obj.e[i].v]]))

\* keyMap?.[key] || key
NewKey(keyMap, key) ==
  IF key \in DOMAIN keyMap /\ keyMap[key] # "" THEN keyMap[key] ELSE key

\* renameKeys(obj, keyMap)
RECURSIVE renameKeys(_, _)
renameKeys(obj, keyMap) ==
  IF obj.t = "s" THEN obj
  ELSE IF obj.t = "a"
    THEN Arr([i \in DOMAIN obj.e |-> renameKeys(obj.e[i], keyMap)])
  ELSE Obj(SetAll(<<>>, [i \in DOMAIN obj.e |->
                           [k |-> NewKey(keyMap, obj.e[i].k),
                            v |-> renameKeys(obj.e[i].v, keyMap)]]))

\* applyKeyDeletions / applyKeyAdditions / applyKeyRenames: the request as it
\* is when the descriptor has no such table, else the function on a deep copy
applyKeyDeletions(request, backendConfig) ==
  IF ~backendConfig.key_delete.set THEN request
  ELSE deleteKeys(request, backendConfig.key_delete.keys)

applyKeyAdditions(request, backendConfig) ==
  IF ~backendConfig.key_add.set THEN request
  ELSE addKeys(request, backendConfig.key_add.map)

applyKeyRenames(request, backendConfig) ==
  IF ~backendConfig.key_rename.set THEN request
  ELSE renameKeys(request, backendConfig.key_rename.map)

\* the additions are applied before the deletions
ShapeMutAddFirst(body, backendConfig) ==
  applyKeyRenames(applyKeyDeletions(applyKeyAdditions(body, backendConfig),
                                    backendConfig), backendConfig)

\* handler: deletions first, then additions, finally renames
ShapeRequest(body, backendConfig) ==
  applyKeyRenames(applyKeyAdditions(applyKeyDeletions(body, backendConfig),
                                    backendConfig), backendConfig)

\* the model is assigned whatever the shaped request holds
ModelMutKeepShaped(finalRequest, selectedBackend) ==
  IF "model" \in Keys(finalRequest.e) THEN finalRequest
  ELSE Obj(ObjSet(finalRequest.e, "model", Scalar(selectedBackend)))

\* handler: finalRequest.model = selectedBackend
RouteModel(finalRequest, selectedBackend) ==
  Obj(ObjSet(finalRequest.e, "model", Scalar(selectedBackend)))

\* entries a request body may hold at its top level
MaxBodyKeys == 3

Entry(key, value) == [k |-> key, v |-> value]

\* nested objects and arrays of a body
ShpLeaves ==
  { Obj(<<>>), Obj(<<Entry("existing", Scalar("1"))>>),
    Obj(<<Entry("max_tokens", Scalar("5")), Entry("existing", Scalar("1"))>>) }

ShpArrays ==
  { Arr(<<Obj(<<Entry("existing", Scalar("1"))>>)>>),
    Arr(<<Scalar("1"), Obj(<<Entry("max_tokens", Scalar("5"))>>)>>) }

\* the values a top-level key of a body may hold
ShpValues(key) ==
  IF key = "o" THEN ShpLeaves
  ELSE IF key = "l" THEN ShpArrays
  ELSE IF key = "model" THEN {Scalar("m")}
  ELSE IF key = "max_tokens" THEN {Scalar("500")}
  ELSE {Scalar("k")}

ShpKeys == {"max_tokens", "existing", "model", "o", "l"}

\* request bodies: objects of up to MaxBodyKeys distinct keys, in any order
ShpBodies ==
  { Obj(es) : es \in
      { e \in SeqsUpTo([k : ShpKeys,
                        v : UNION {ShpValues(key) : key \in ShpKeys}],
                       MaxBodyKeys) :
          /\ \A i, j \in DOMAIN e : i # j => e[i].k # e[j].k
          /\ \A i \in DOMAIN e : e[i].v \in ShpValues(e[i].k) } }

\* key_delete, key_add, key_rename of a descriptor: absent, or a table
ShpDeletes ==
  {[set |-> FALSE, keys |-> {}]} \cup
  [set : {TRUE}, keys : SUBSET {"max_tokens", "existing", "model"}]

ShpAdds ==
  {[set |-> FALSE, map |-> <<>>]} \cup
  [set : {TRUE},
   map : { <<>>, <<Entry("new", Scalar("v"))>>,
           <<Entry("existing", Scalar("v"))>>,
           <<Entry("max_tokens", Scalar("v")), Entry("new", Scalar("v"))>>,
           <<Entry("model", Scalar("v"))>>,
           <<Entry("new", Obj(<<Entry("existing", Scalar("1"))>>))>> }]

ShpRenames ==
  {[set |-> FALSE, map |-> <<>>]} \cup
  [set : {TRUE},
   map : { [k \in {"existing"} |-> "renamed"], [k \in {"new"} |-> "renamed"],
           [k \in {"max_tokens"} |-> "max_completion_tokens"],
           [k \in {"existing"} |-> "new"], [k \in {"model"} |-> "existing"],
           [k \in {"existing"} |-> "model"], [k \in {"o"} |-> "p"] }]

\* convert_claude_to_openai, as far as the model field goes: the converted
\* request carries the model the model manager maps the caller's model to
ConvertedRequest(body) == Obj(<<Entry("model", Scalar("mapped"))>>)

\* chat handler: the body is shaped with the tables of the selected backend
\* and routed to it
ShapeCall ==
  /\ shp.pc = "pending"
  /\ shp.dialect = "chat"
  /\ LET shaped == ShapeRequest(shp.body, shp.cfg)
     IN shp' = [shp EXCEPT !.pc = "shaped", !.shaped = shaped,
                           !.final = RouteModel(shaped, shp.selected)]
  /\ UNCHANGED <<selVars, sysVars, sse, auth, prs, tr, att, ins, pay, tl>>

\* messages handler: the body is converted and routed to the selected backend
ConvertCall ==
  /\ shp.pc = "pending"
  /\ shp.dialect = "messages"
  /\ shp' = [shp EXCEPT !.pc = "converted",
                        !.final = RouteModel(ConvertedRequest(shp.body),
                                             shp.selected)]
  /\ UNCHANGED <<selVars, sysVars, sse, auth, prs, tr, att, ins, pay, tl>>

\* addKeys on its own
AddKeysCall ==
  /\ shp.pc = "pending"
  /\ shp.cfg.key_add.set
  /\ shp' = [shp EXCEPT !.pc = "added",
                        !.added = addKeys(shp.body, shp.cfg.key_add.map)]
  /\ UNCHANGED <<selVars, sysVars, sse, auth, prs, tr, att, ins, pay, tl>>

\* the three functions applied to one body in each of the six orders
ApplyInOrder(order, body, backendConfig) ==
  LET step(k, x) ==
        IF order[k] = "delete" THEN applyKeyDeletions(x, backendConfig)
        ELSE IF order[k] = "add" THEN applyKeyAdditions(x, backendConfig)
        ELSE applyKeyRenames(x, backendConfig)
  IN step(3, step(2, step(1, body)))

ShapeOrders ==
  << <<"delete", "add", "rename">>, <<"delete", "rename", "add">>,
     <<"add", "delete", "rename">>, <<"add", "rename", "delete">>,
     <<"rename", "delete", "add">>, <<"rename", "add", "delete">> >>

OrdersCall ==
  /\ shp.pc = "pending"
  /\ shp.dialect = "chat"
  /\ shp' = [shp EXCEPT !.pc = "ordered",
                        !.orders = [i \in DOMAIN ShapeOrders |->
                                      ApplyInOrder(ShapeOrders[i], shp.body, shp.cfg)]]
  /\ UNCHANGED <<selVars, sysVars, sse, auth, prs, tr, att, ins, pay, tl>>

InitShape ==
  /\ \E body \in ShpBodies, dialect \in {"chat", "messages"} :
       \E d \in ShpDeletes, a \in ShpAdds, r \in ShpRenames :
         /\ shp = [pc |-> "pending", dialect |-> dialect, body |-> body,
                   selected |-> "A",
                   cfg |-> [key_delete |-> d, key_add |-> a, key_rename |-> r],
                   shaped |-> Obj(<<>>), final |-> Obj(<<>>),
                   added |-> Obj(<<>>), orders |-> <<>>]
  /\ SelIdle
  /\ PrsIdle
  /\ TrIdle
  /\ AttIdle
  /\ InsIdle
  /\ PayIdle
  /\ TlIdle
  /\ SysIdle
  /\ SseIdle
  /\ AuthIdle

NextShape == ShapeCall \/ ConvertCall \/ AddKeysCall \/ OrdersCall

SpecShape == InitShape /\ [][NextShape]_vars

(***************************************************************************)
(* The translator: convert_claude_to_openai on a request of one user       *)
(* message, convert_openai_to_claude_response on a Chat-Completions        *)
(* response.                                                               *)
(***************************************************************************)
\* largest completion_tokens of an upstream response
MaxUsage == 2

\* convert_claude_user_message(msg) for a user message: a string as it is;
\* of an array the text blocks and the images, and when that leaves one text
\* block, its text
convert_claude_user_message(c) ==
  IF c.kind = "string" THEN [role |-> "user", content |-> c]
  ELSE LET openai_content ==
             [i \in DOMAIN c.blocks |->
                IF c.blocks[i].type = "text" THEN c.blocks[i]
                ELSE [type |-> "image_url", text |-> ""]]
       IN IF Len(openai_content) = 1 /\ openai_content[1].type = "text"
            THEN [role |-> "user", content |-> StrContent(openai_content[1].text)]
            ELSE [role |-> "user", content |-> ArrContent(openai_content)]

\* convert_claude_to_openai: the messages of the converted request
convert_claude_to_openai(claude_request) ==
  (IF claude_request.system # ""
     THEN <<[role |-> "system", content |-> StrContent(claude_request.system)]>>
     ELSE <<>>)
    \o <<convert_claude_user_message(claude_request.content)>>

\* a finish_reason that is not known is mapped to max_tokens
StopMutDefaultMax(fr) ==
  IF fr = "stop" THEN "end_turn"
  ELSE IF fr \in {"tool_calls", "function_call"} THEN "tool_use"
  ELSE "max_tokens"

\* map_finish_reason_to_stop_reason
map_finish_reason_to_stop_reason(fr) ==
  IF fr = "length" THEN "max_tokens"
  ELSE IF fr \in {"tool_calls", "function_call"} THEN "tool_use"
  ELSE "end_turn"

\* convert_openai_to_claude_response on a Chat-Completions response
convert_openai_to_claude_response(openai_response) ==
  IF openai_response.choices = 0 THEN NoResponse("throws")
  ELSE LET text_blocks ==
             IF openai_response.hasContent
               THEN <<[type |-> "text", text |-> openai_response.content]>>
               ELSE <<>>
           content_blocks ==
             text_blocks \o [i \in 1..openai_response.tool_calls |->
                               [type |-> "tool_use", text |-> ""]]
       IN [st |-> "ok",
           content |-> IF content_blocks = <<>>
                         THEN <<[type |-> "text", text |-> ""]>>
                         ELSE content_blocks,
           stop_reason |->
             map_finish_reason_to_stop_reason(
               IF openai_response.finish_reason = "" THEN "stop"
               ELSE openai_response.finish_reason),
           output_tokens |-> IF openai_response.hasUsage
                               THEN openai_response.completion_tokens ELSE 0]

\* messages handler: the request is converted for the upstream
ConvertRequest ==
  /\ tr.pc = "request"
  /\ tr' = [tr EXCEPT !.pc = "upstream", !.oreq = convert_claude_to_openai(tr.req)]
  /\ UNCHANGED <<selVars, sysVars, sse, auth, shp, prs, att, ins, pay, tl>>

\* messages handler, buffered: the upstream response is converted back
ConvertResponse ==
  /\ tr.pc = "upstream"
  /\ tr' = [tr EXCEPT !.pc = "answered",
                      !.cres = convert_openai_to_claude_response(tr.resp)]
  /\ UNCHANGED <<selVars, sysVars, sse, auth, shp, prs, att, ins, pay, tl>>

\* requests of one user message: its text as a string, as one text block,
\* and beside an image; with and without a system prompt
TrContents ==
  UNION { { StrContent(t), ArrContent(<<[type |-> "text", text |-> t]>>),
            ArrContent(<<[type |-> "text", text |-> t],
                         [type |-> "image", text |-> ""]>>) } :
          t \in {"", "T"} }

\* upstream responses: with or without a choice, text, tool calls, usage
TrResponses ==
  { r \in [choices : {0, 1}, hasContent : BOOLEAN, content : {"", "R"},
           tool_calls : {0, 1},
           finish_reason : {"", "stop", "length", "tool_calls", "content_filter"},
           hasUsage : BOOLEAN, completion_tokens : 0..MaxUsage] :
      /\ r.choices = 0 =>
           ~r.hasContent /\ r.tool_calls = 0 /\ r.finish_reason = ""
      /\ ~r.hasContent => r.content = ""
      /\ ~r.hasUsage => r.completion_tokens = 0 }

InitTranslate ==
  /\ tr \in [pc : {"request"},
              req : [system : {"", "S"}, content : TrContents],
              resp : TrResponses, oreq : {<<>>}, cres : {NoResponse("pending")}]
  /\ SelIdle
  /\ SysIdle
  /\ SseIdle
  /\ AuthIdle
  /\ ShpIdle
  /\ PrsIdle
  /\ AttIdle
  /\ InsIdle
  /\ PayIdle
  /\ TlIdle

NextTranslate == ConvertRequest \/ ConvertResponse

SpecTranslate == InitTranslate /\ [][NextTranslate]_vars

(***************************************************************************)
(* provider:model strings: the Config constructor and providerConfigFor.   *)
(***************************************************************************)
\* longest backend string that is parsed
MaxName == 5

\* s.includes(":")
HasColon(s) == \E i \in DOMAIN s : s[i] = ":"

\* the colon is looked for from the end of the string
IndexMutLast(s) == MaxOf({i \in DOMAIN s : s[i] = ":"}) - 1

\* s.indexOf(":") of a string that holds one (JavaScript indexes from 0)
IndexOfColon(s) == MinOf({i \in DOMAIN s : s[i] = ":"}) - 1

\* s.slice(from, to) and s.slice(from) for indexes within the string
Slice(s, from, to) == SubSeq(s, from + 1, to)

\* Config.constructor: this.provider and this.model of this.backend, or the
\* error "Backend must be in provider:model format"
ConfigProviderModel(backend) ==
  IF ~HasColon(backend) THEN NotParsed("throws")
  ELSE LET colonIndex == IndexOfColon(backend)
       IN [st |-> "ok", provider |-> Slice(backend, 0, colonIndex),
           model |-> Slice(backend, colonIndex + 1, Len(backend))]

\* this.provider of the running server, the fallback of providerConfigFor
ServerProvider == <<"p">>

\* providerConfigFor(providerModelString, config): provider and model
providerConfigFor(providerModelString) ==
  IF HasColon(providerModelString)
    THEN LET colonIndex == IndexOfColon(providerModelString)
         IN [st |-> "ok", provider |-> Slice(providerModelString, 0, colonIndex),
             model |-> Slice(providerModelString, colonIndex + 1,
                             Len(providerModelString))]
    ELSE [st |-> "ok", provider |-> ServerProvider, model |-> providerModelString]

\* new Config(cfg) with the string as its primary backend
ConstructConfig ==
  /\ prs.cfg.st = "pending"
  /\ prs' = [prs EXCEPT !.cfg = ConfigProviderModel(prs.s)]
  /\ UNCHANGED <<selVars, sysVars, sse, auth, shp, tr, att, ins, pay, tl>>

\* providerConfigFor on the string
ProviderConfigForCall ==
  /\ prs.pcf.st = "pending"
  /\ prs' = [prs EXCEPT !.pcf = providerConfigFor(prs.s)]
  /\ UNCHANGED <<selVars, sysVars, sse, auth, shp, tr, att, ins, pay, tl>>

\* backend strings over a provider character, a model character and the colon
InitParse ==
  /\ prs \in [s : SeqsUpTo({"p", "m", ":"}, MaxName),
               cfg : {NotParsed("pending")}, pcf : {NotParsed("pending")}]
  /\ SelIdle
  /\ SysIdle
  /\ SseIdle
  /\ AuthIdle
  /\ ShpIdle
  /\ TrIdle
  /\ AttIdle
  /\ InsIdle
  /\ PayIdle
  /\ TlIdle

NextParse == ConstructConfig \/ ProviderConfigForCall

SpecParse == InitParse /\ [][NextParse]_vars

(***************************************************************************)
(* Specification of the selector: one call on arbitrary bounded inputs.    *)
(***************************************************************************)
InitSelect ==
  /\ sel_in \in [backends : SeqsUpTo(SelDescriptors, MaxCatalog),
                 request : SelRequests,
                 estimatedTokens : SelTokens,
                 failedBackends : SelExcluded]
  /\ sel_out = "pending"
  /\ sel_again = "pending"
  /\ PrsIdle
  /\ TrIdle
  /\ AttIdle
  /\ InsIdle
  /\ PayIdle
  /\ TlIdle
  /\ SysIdle
  /\ SseIdle
  /\ AuthIdle
  /\ ShpIdle

\* this.backends after a call: filter builds a new array and leaves the
\* catalog as it is
SelectMutInPlace(cat, failedBackends) ==
  AvailableBackends(cat, failedBackends)

BackendsAfterSelect(cat, failedBackends) == cat

SelectBackendCall ==
  /\ sel_out = "pending"
  /\ sel_out' = selectBackend(sel_in.backends, sel_in.request,
                              sel_in.estimatedTokens, sel_in.failedBackends)
  /\ sel_in' = [sel_in EXCEPT !.backends =
                  BackendsAfterSelect(@, sel_in.failedBackends)]
  /\ UNCHANGED <<sel_again, sysVars, pureVars>>

\* a second call with the same arguments
SelectBackendAgain ==
  /\ sel_out \notin {"pending", "unused"}
  /\ sel_again = "pending"
  /\ sel_again' = selectBackend(sel_in.backends, sel_in.request,
                                sel_in.estimatedTokens, sel_in.failedBackends)
  /\ sel_in' = [sel_in EXCEPT !.backends =
                  BackendsAfterSelect(@, sel_in.failedBackends)]
  /\ UNCHANGED <<sel_out, sysVars, pureVars>>

NextSelect == SelectBackendCall \/ SelectBackendAgain

SpecSelect == InitSelect /\ [][NextSelect]_vars

(***************************************************************************)
(* The streaming client: _create_stream on one upstream body.              *)
(* A string is a sequence of one-character strings; the upstream body is a *)
(* sequence of bytes, "c3" "a9" being the two bytes of the character "E9". *)
(***************************************************************************)
\* lines an upstream body is made of
MaxLines == 3

\* network reads one upstream body arrives in
MaxReads == 3

NL == "\n"

\* the argument of ln.startsWith("data:")
DataPrefix == <<"d", "a", "t", "a", ":">>

\* the characters String.prototype.trim removes
Whitespace == {" ", "\n", "\r", "\t"}

\* decoder.decode(value, { stream: true }): an incomplete character at the end
\* of a read is kept for the next read; a malformed one becomes U+FFFD
RECURSIVE Decode(_, _, _)
Decode(pending, bytes, text) ==
  IF bytes = <<>> THEN [pending |-> pending, text |-> text]
  ELSE LET b == Head(bytes)
       IN IF pending # ""
            THEN IF b = "a9" THEN Decode("", Tail(bytes), Append(text, "E9"))
                 ELSE Decode("", bytes, Append(text, "FFFD"))
          ELSE IF b = "c3" THEN Decode("c3", Tail(bytes), text)
          ELSE IF b = "a9" THEN Decode("", Tail(bytes), Append(text, "FFFD"))
          ELSE Decode("", Tail(bytes), Append(text, b))

\* buf.indexOf("\n\n"), counted from 1; 0 when there is none
IndexOfBlank(buf) ==
  LET hits == {i \in 1..(Len(buf) - 1) : buf[i] = NL /\ buf[i + 1] = NL}
  IN IF hits = {} THEN 0 ELSE MinOf(hits)

\* s.split("\n")
RECURSIVE Split(_)
Split(s) ==
  LET hits == {i \in 1..Len(s) : s[i] = NL}
  IN IF hits = {} THEN <<s>>
     ELSE <<SubSeq(s, 1, MinOf(hits) - 1)>>
            \o Split(SubSeq(s, MinOf(hits) + 1, Len(s)))

\* ln.startsWith(prefix)
startsWith(ln, prefix) ==
  Len(ln) >= Len(prefix) /\ SubSeq(ln, 1, Len(prefix)) = prefix

\* s.trim().length === 0
TrimIsEmpty(s) == \A i \in 1..Len(s) : s[i] \in Whitespace

\* every non-empty line is yielded, whatever it starts with
YieldsMutAll(chunk) ==
  LET lines == SelectSeq(Split(chunk), LAMBDA ln : ln # <<>>)
  IN [i \in 1..Len(lines) |-> lines[i] \o <<NL, NL>>]

\* chunk.split("\n").filter(Boolean), then ln + "\n\n" for each line that
\* starts with "data:"
Yields(chunk) ==
  LET lines == SelectSeq(SelectSeq(Split(chunk), LAMBDA ln : ln # <<>>),
                         LAMBDA ln : startsWith(ln, DataPrefix))
  IN [i \in 1..Len(lines) |-> lines[i] \o <<NL, NL>>]

\* the inner while loop: events are cut off the front of buf at each "\n\n"
RECURSIVE Drain(_, _)
Drain(buf, out) ==
  LET idx == IndexOfBlank(buf)
      chunk == SubSeq(buf, 1, idx - 1)
      rest == SubSeq(buf, idx + 2, Len(buf))
  IN IF idx = 0 THEN [buf |-> buf, out |-> out]
     ELSE IF TrimIsEmpty(chunk) THEN Drain(rest, out)
     ELSE Drain(rest, out \o Yields(chunk))

\* reader.read() resolves with a value
ReaderRead ==
  /\ sse.pc = "reading"
  /\ sse.k < Len(sse.reads)
  /\ LET d == Decode(sse.pending, sse.reads[sse.k + 1], <<>>)
         r == Drain(sse.buf \o d.text, sse.out)
     IN sse' = [sse EXCEPT !.k = @ + 1, !.pending = d.pending,
                           !.buf = r.buf, !.out = r.out]
  /\ UNCHANGED <<selVars, sysVars, auth, shp, prs, tr, att, ins, pay, tl>>

\* reader.read() resolves with done: what is left in buf is handled
ReaderDone ==
  /\ sse.pc = "reading"
  /\ sse.k = Len(sse.reads)
  /\ sse' = [sse EXCEPT !.pc = "done",
                        !.out = IF TrimIsEmpty(sse.buf) THEN @
                                ELSE @ \o Yields(sse.buf)]
  /\ UNCHANGED <<selVars, sysVars, auth, shp, prs, tr, att, ins, pay, tl>>

\* upstream lines (what stands between two "\n"): data lines, one with a
\* two-byte character and one ended by "\r" as under CRLF framing, a line that
\* is no data line, an empty line, the "\r" that is the blank line of CRLF
\* framing, and a data: preceded by a blank
SseLines ==
  { <<"d", "a", "t", "a", ":", "x">>, <<"d", "a", "t", "a", ":">>,
    <<"d", "a", "t", "a", ":", "E9">>, <<"d", "a", "t", "a", ":", "\r">>,
    <<"x">>, <<>>, <<"\r">>, <<" ", "d", "a", "t", "a", ":">> }

\* the text of an upstream body: its lines, each ended by "\n" but, when tail
\* holds, the last
RECURSIVE Text(_, _)
Text(lines, tail) ==
  IF lines = <<>> THEN <<>>
  ELSE IF Len(lines) = 1 /\ tail THEN lines[1]
  ELSE lines[1] \o <<NL>> \o Text(Tail(lines), tail)

\* the UTF-8 bytes of a text
RECURSIVE Utf8(_)
Utf8(text) ==
  IF text = <<>> THEN <<>>
  ELSE (IF Head(text) = "E9" THEN <<"c3", "a9">> ELSE <<Head(text)>>)
         \o Utf8(Tail(text))

\* the ways a body arrives in at most n non-empty reads
RECURSIVE SplitsOf(_, _)
SplitsOf(bytes, n) ==
  IF bytes = <<>> THEN {<<>>}
  ELSE IF n = 1 THEN {<<bytes>>}
  ELSE {<<bytes>>} \cup
       UNION { { <<SubSeq(bytes, 1, c)>> \o r :
                   r \in SplitsOf(SubSeq(bytes, c + 1, Len(bytes)), n - 1) } :
               c \in 1..(Len(bytes) - 1) }

InitStream ==
  /\ \E lines \in SeqsUpTo(SseLines, MaxLines), tail \in BOOLEAN :
       \E reads \in SplitsOf(Utf8(Text(lines, tail)), MaxReads) :
         sse = [pc |-> "reading", reads |-> reads, k |-> 0, pending |-> "",
                buf |-> <<>>, out |-> <<>>, lines |-> lines, tail |-> tail]
  /\ SelIdle
  /\ PrsIdle
  /\ TrIdle
  /\ AttIdle
  /\ InsIdle
  /\ PayIdle
  /\ TlIdle
  /\ SysIdle
  /\ AuthIdle
  /\ ShpIdle

NextStream == ReaderRead \/ ReaderDone

SpecStream == InitStream /\ [][NextStream]_vars

(***************************************************************************)
(* The selector, stated independently of the scan of selectBackend.        *)
(***************************************************************************)
HasImageBlock(message) ==
  message.isArray /\ \E j \in DOMAIN message.blocks :
                        message.blocks[j] \in {"image", "image_url"}

\* the request has an image in a user message
UserImage(request) ==
  \E i \in DOMAIN request.messages :
    request.messages[i].role = "user" /\ HasImageBlock(request.messages[i])

\* the request has an image in a message of any role
AnyImage(request) ==
  \E i \in DOMAIN request.messages : HasImageBlock(request.messages[i])

ThinkingRequested(request) ==
  \/ request.thinking = "enabled"
  \/ Includes(request.model, <<"o", "1">>)
  \/ Includes(request.model, <<"o", "3">>)
  \/ request.reasoning_mode = TRUE

\* a pattern matches a model name: case-insensitive, * any run of characters,
\* ? any one character, anchored at both ends
GlobMatches(pattern, name) == RegexTest(pattern, name)

\* the five conditions on one descriptor
Satisfies(d, request, tokens, excluded, needsVision) ==
  /\ d.model \notin excluded
  /\ tokens <= d.context
  /\ (needsVision => d.vision)
  /\ (ThinkingRequested(request) => d.thinking)
  /\ \/ d.model_match = <<>>
     \/ \E k \in DOMAIN d.model_match : GlobMatches(d.model_match[k], request.model)

\* the model of the lowest-index descriptor satisfying them, or none
FirstSatisfying(cat, request, tokens, excluded, needsVision) ==
  LET ok == {i \in DOMAIN cat : Satisfies(cat[i], request, tokens, excluded, needsVision)}
  IN IF ok = {} THEN None ELSE cat[MinOf(ok)].model

ExplicitContexts(cat) == \A i \in DOMAIN cat : cat[i].context > 0

DistinctModels(cat) ==
  \A i, j \in DOMAIN cat : i # j => cat[i].model # cat[j].model

SelCalled == sel_out \notin {"pending", "unused"}

\* C1, as claimed: on a catalog whose descriptors all carry an explicit
\* positive context, selectBackend returns the model of the lowest-index
\* descriptor satisfying the five conditions, where vision is required when a
\* USER message has an image block; none exactly when no descriptor satisfies.
C1_FirstMatchUserImage ==
  (SelCalled /\ ExplicitContexts(sel_in.backends)) =>
    sel_out = FirstSatisfying(sel_in.backends, sel_in.request,
                              sel_in.estimatedTokens, sel_in.failedBackends,
                              UserImage(sel_in.request))

\* C1, amended: the same on catalogs whose descriptors carry pairwise distinct
\* models and explicit positive contexts, where vision is required when a
\* message of ANY role has an image block.
C1_FirstMatch ==
  (SelCalled /\ ExplicitContexts(sel_in.backends) /\ DistinctModels(sel_in.backends)) =>
    sel_out = FirstSatisfying(sel_in.backends, sel_in.request,
                              sel_in.estimatedTokens, sel_in.failedBackends,
                              AnyImage(sel_in.request))

\* two descriptors qualify for an image request whose size equals the first
\* one's context, and the first one is returned
C1_Witness ==
  /\ SelCalled
  /\ Len(sel_in.backends) = 2
  /\ ExplicitContexts(sel_in.backends) /\ DistinctModels(sel_in.backends)
  /\ AnyImage(sel_in.request)
  /\ sel_in.estimatedTokens = sel_in.backends[1].context
  /\ \A i \in 1..2 : Satisfies(sel_in.backends[i], sel_in.request,
                               sel_in.estimatedTokens, sel_in.failedBackends, TRUE)
  /\ sel_out = sel_in.backends[1].model

\* C2: selectBackend never returns a member of the exclusion list, and returns
\* none when the list holds every model of the catalog.
C2_NeverExcluded ==
  SelCalled =>
    /\ sel_out \notin sel_in.failedBackends
    /\ ({sel_in.backends[i].model : i \in DOMAIN sel_in.backends}
          \subseteq sel_in.failedBackends => sel_out = None)

\* the first descriptor would be chosen but is excluded; the second is returned
C2_Witness ==
  /\ SelCalled
  /\ Len(sel_in.backends) = 2
  /\ sel_in.failedBackends = {"A"}
  /\ sel_in.backends[1].model = "A"
  /\ selectBackend(sel_in.backends, sel_in.request, sel_in.estimatedTokens, {}) = "A"
  /\ sel_out = "B"

(***************************************************************************)
(* The failover orchestrator.                                              *)
(***************************************************************************)
\* C3: an orchestrator invocation with failover active issues at most
\* 10 x (1 + |failover|) upstream attempts, and when it fails it fails with the
\* 503 after exactly 10 cycles (and 9 backoff sleeps).
C3_CycleBound ==
  \A h \in Handlers :
    hs[h].mode = "failover" =>
      /\ Len(hs[h].log) <= 10 * (1 + Len(hs[h].fo0))
      /\ hs[h].cycle <= 10
      /\ (hs[h].opc = "failed") <=> (hs[h].cycle = 10)
      /\ hs[h].opc = "failed" => hs[h].err = 503 /\ Len(hs[h].sleeps) = 9

\* every attempt of all ten cycles failed: 30 attempts, then the 503
C3_Witness ==
  \E h \in Handlers :
    /\ hs[h].mode = "failover"
    /\ hs[h].opc = "failed" /\ hs[h].err = 503
    /\ Len(hs[h].log) = 10 * (1 + Len(hs[h].fo0))

\* the schedule as claimed: the k-th sleep of a request
ClaimedSleep(k) ==
  IF k <= Len(backoff_seq) THEN backoff_seq[k] ELSE 60

\* C4, as claimed: the sleeps of a request follow [2,4,8,15,15,30,30,60] in
\* order, the first sleep being 2 s, and every later sleep is 60 s.
C4_BackoffSchedule ==
  \A h \in Handlers :
    \A k \in DOMAIN hs[h].sleeps : hs[h].sleeps[k] = ClaimedSleep(k)

\* C5, as claimed: when an attempt on the invocation's primary fails with a
\* day-limit error the cooldown becomes now + 300, the primary is not attempted
\* again by that request, and its next attempt goes to the first failover
\* backend.
C5_DayLimitOnPrimary ==
  [][\A h \in {k \in Handlers : hs'[k].mode = "failover"} :
       /\ (hs[h].dlAt = 0 /\ hs'[h].dlAt # 0) => cooldown' = now + 300
       /\ hs'[h].dlAt # 0 =>
            /\ \A i \in (hs'[h].dlAt + 1)..Len(hs'[h].log) :
                 hs'[h].log[i] # hs'[h].primary
            /\ Len(hs'[h].log) > hs'[h].dlAt =>
                 hs'[h].log[hs'[h].dlAt + 1] = hs'[h].fo0[1]]_vars

\* C6, as claimed: an invocation that starts during the cooldown issues no
\* attempt to its primary.
C6_StartedInCooldown ==
  \A h \in Handlers :
    hs[h].coolStart => hs[h].primary \notin Range(hs[h].log)

\* C7, as claimed: no attempt is issued to a request's primary while
\* now < primary_cooldown_until.
C7_NoPrimaryInCooldown ==
  [][\A h \in Handlers :
       (Len(hs'[h].log) > Len(hs[h].log)
          /\ hs'[h].log[Len(hs'[h].log)] = hs'[h].primary)
         => ~(now' < cooldown')]_vars

\* C8: primary_cooldown_until never decreases.
C8_CooldownMonotonic == [][cooldown' >= cooldown]_vars

\* two overlapping requests each hit a day-limit error on the primary, the
\* second one later than the first
C8_Witness ==
  /\ cooldown > CooldownUntil(0)
  /\ \E h1, h2 \in Handlers : h1 # h2 /\ hs[h1].dlAt # 0 /\ hs[h2].dlAt # 0

\* C9, as claimed: in a streaming request with failover active, after a
\* stream that has yielded data fails, no further attempt is made and no data
\* of another backend is yielded.
C9_NoRetryMidStream ==
  \A h \in Handlers :
    (hs[h].mode = "failover" /\ hs[h].body.stream /\ hs[h].midAt # 0) =>
      /\ Len(hs[h].log) = hs[h].midAt
      /\ Cardinality(hs[h].srcs) <= 1

\* C10: a handler invocation that overrode the config returns or throws with
\* config.backend and config.failover equal to its snapshot.
C10_RestoreOnExit ==
  [][\A h \in Handlers :
       (hs[h].hpc \in {"tokens", "awaiting"} /\ hs'[h].hpc = "returned")
         => config' = hs[h].snap]_vars

\* one handler left by the 499 and another by an upstream failure, both
\* after an override
C10_Witness ==
  \E h1, h2 \in Handlers :
    /\ hs[h1].selected # None /\ hs[h1].hpc = "returned" /\ hs[h1].status = 499
    /\ hs[h2].selected # None /\ hs[h2].hpc = "returned"
    /\ hs[h2].status \in {429, 500, 503}


(***************************************************************************)
(* Overlapping handler invocations and the shared configuration.           *)
(***************************************************************************)
\* C11, as claimed: the first upstream attempt of every request that did not
\* start during the cooldown goes to the backend selected for that request,
\* and the orchestrator's primary and failover list are the request's own.
C11_OwnBackendFirst ==
  \A h \in Handlers :
    (hs[h].log # <<>> /\ ~hs[h].coolStart) =>
      /\ hs[h].log[1] = hs[h].selected
      /\ hs[h].primary = hs[h].selected

\* C12, as claimed: whenever no handler invocation is in progress the shared
\* config.backend and config.failover have their startup values.
C12_NoLeak ==
  (\A h \in Handlers : hs[h].hpc \notin {"tokens", "awaiting"})
    => config = StartupConfig(backends)


(***************************************************************************)
(* SSE framing.                                                            *)
(***************************************************************************)
\* a line that begins with "data:", stated on the line itself
IsDataLine(l) ==
  /\ Len(l) >= 5
  /\ l[1] = "d" /\ l[2] = "a" /\ l[3] = "t" /\ l[4] = "a" /\ l[5] = ":"

\* the data lines of the upstream body, in order, each followed by a blank line
ExpectedFrames(lines) ==
  LET data == SelectSeq(lines, IsDataLine)
  IN [i \in 1..Len(data) |-> data[i] \o <<NL, NL>>]

\* C13: however the upstream body is split into reads, the output of
\* _create_stream is exactly the upstream's data: lines, each once, in order,
\* each followed by one blank line, and at every moment a prefix of them.
C13_SseFraming ==
  LET want == ExpectedFrames(sse.lines)
  IN /\ sse.pc = "done" => sse.out = want
     /\ sse.pc \in {"reading", "done"} =>
          /\ Len(sse.out) <= Len(want)
          /\ sse.out = SubSeq(want, 1, Len(sse.out))

\* a body of two events and an unterminated data line, read in three pieces,
\* one read ending between the two newlines of a separator and one inside a
\* two-byte character
C13_Witness ==
  /\ sse.pc = "done"
  /\ sse.tail
  /\ Len(sse.lines) = 3 /\ Len(sse.reads) = 3
  /\ Len(sse.out) = 2
  /\ sse.lines[2] = <<>>
  /\ LET r1 == sse.reads[1]
         r2 == sse.reads[2]
     IN /\ r1[Len(r1)] = NL /\ r2[1] = NL
        /\ r2[Len(r2)] = "c3"


(***************************************************************************)
(* Client authentication.                                                  *)
(***************************************************************************)
\* the request carries a token of the table in x-api-key or as Bearer token
CarriesToken(req, tokens) ==
  \/ req.x_api_key \in tokens
  \/ req.authorization.scheme \in {"Bearer", "bearer"}
       /\ req.authorization.token \in tokens

\* C14, as claimed: with a non-empty token table a request is authenticated
\* exactly when its x-api-key or its Bearer token is in the table; a request
\* that is not is answered 401 with no selection, override or attempt; with an
\* empty table every request is authenticated.
C14_AuthIff ==
  \A h \in Handlers :
    hs[h].hpc \notin {"idle", "off"} =>
      /\ (hs[h].status = 401) <=>
           (auth.tokens # {} /\ ~CarriesToken(auth.req, auth.tokens))
      /\ hs[h].status = 401 =>
           /\ hs[h].selected = None /\ hs[h].log = <<>>
           /\ config = StartupConfig(backends)


(***************************************************************************)
(* The 400 of a request no backend can serve.                              *)
(***************************************************************************)
\* the message the claim states for a request
ClaimedRejectMessage(body) ==
  IF AnyImage(body) THEN "llmux: no model supports vision"
  ELSE IF ThinkingRequested(body) THEN "llmux: no model supports thinking"
  ELSE "llmux: no suitable backend available"

\* C15, as claimed: when selectBackend returns none the handler answers 400
\* with no upstream attempt and the config unchanged, and the message names
\* vision, else thinking (thinking.type enabled, model o1/o3, reasoning_mode),
\* else no suitable backend.
C15_RejectMessage ==
  [][\A h \in Handlers :
       (hs[h].hpc = "idle" /\ hs'[h].status = 400) =>
         /\ selectBackend(backends, hs'[h].body, estimateTokens(hs'[h].body), {}) = None
         /\ hs'[h].msg = ClaimedRejectMessage(hs'[h].body)
         /\ hs'[h].log = <<>> /\ config' = config]_vars


(***************************************************************************)
(* The request shaper, stated on JSON values without the order of their    *)
(* entries: an object is a function from its keys to its values.           *)
(***************************************************************************)
ValueAt(entries, key) ==
  entries[CHOOSE i \in DOMAIN entries : entries[i].k = key].v

RECURSIVE Abs(_)
Abs(x) ==
  IF x.t = "s" THEN [t |-> "s", v |-> x.v, e |-> <<>>, m |-> <<>>]
  ELSE IF x.t = "a"
    THEN [t |-> "a", v |-> "", e |-> [i \in DOMAIN x.e |-> Abs(x.e[i])],
          m |-> <<>>]
  ELSE [t |-> "o", v |-> "", e |-> <<>>,
        m |-> [key \in Keys(x.e) |-> Abs(ValueAt(x.e, key))]]

\* delete: every object loses the keys of D
RECURSIVE DelS(_, _)
DelS(x, D) ==
  IF x.t = "s" THEN x
  ELSE IF x.t = "a" THEN [x EXCEPT !.e = [i \in DOMAIN x.e |-> DelS(x.e[i], D)]]
  ELSE [x EXCEPT !.m = [key \in (DOMAIN x.m) \ D |-> DelS(x.m[key], D)]]

\* add: every object gains the keys of A it does not have
RECURSIVE AddS(_, _)
AddS(x, A) ==
  IF x.t = "s" THEN x
  ELSE IF x.t = "a" THEN [x EXCEPT !.e = [i \in DOMAIN x.e |-> AddS(x.e[i], A)]]
  ELSE [x EXCEPT !.m = [key \in (DOMAIN x.m) \cup (DOMAIN A) |->
                          IF key \in DOMAIN x.m THEN AddS(x.m[key], A)
                          ELSE A[key]]]

Target(R, key) == IF key \in DOMAIN R THEN R[key] ELSE key

\* rename: every key of every object is replaced by its target
RECURSIVE RenS(_, _)
RenS(x, R) ==
  IF x.t = "s" THEN x
  ELSE IF x.t = "a" THEN [x EXCEPT !.e = [i \in DOMAIN x.e |-> RenS(x.e[i], R)]]
  ELSE [x EXCEPT !.m =
          [key \in {Target(R, k) : k \in DOMAIN x.m} |->
             RenS(x.m[CHOOSE k \in DOMAIN x.m : Target(R, k) = key], R)]]

\* no two keys of one object are renamed to the same key
RECURSIVE Unambiguous(_, _)
Unambiguous(x, R) ==
  IF x.t = "s" THEN TRUE
  ELSE IF x.t = "a" THEN \A i \in DOMAIN x.e : Unambiguous(x.e[i], R)
  ELSE /\ \A k1, k2 \in DOMAIN x.m : Target(R, k1) = Target(R, k2) => k1 = k2
       /\ \A k \in DOMAIN x.m : Unambiguous(x.m[k], R)

\* the tables of a descriptor, an absent table being an empty one
DeleteSetOf(cfg) == IF cfg.key_delete.set THEN cfg.key_delete.keys ELSE {}

AddMapOf(cfg) ==
  LET es == IF cfg.key_add.set THEN cfg.key_add.map ELSE <<>>
  IN [key \in Keys(es) |-> Abs(ValueAt(es, key))]

RECURSIVE AddOk(_, _, _)
AddOk(in, out, A) ==
  IF in.t = "s" THEN out = in
  ELSE IF in.t = "a"
    THEN /\ out.t = "a" /\ Len(out.e) = Len(in.e)
         /\ \A i \in DOMAIN in.e : AddOk(in.e[i], out.e[i], A)
  ELSE /\ out.t = "o"
       /\ Keys(out.e) = Keys(in.e) \cup Keys(A)
       /\ Len(out.e) = Cardinality(Keys(out.e))
       /\ \A key \in Keys(in.e) :
            AddOk(ValueAt(in.e, key), ValueAt(out.e, key), A)
       /\ \A key \in Keys(A) \ Keys(in.e) :
            ValueAt(out.e, key) = ValueAt(A, key)

\* C17: addKeys never overwrites: at every object of the tree a key the input
\* has keeps its value and a key it lacks gets the added one; scalars and
\* arrays gain nothing and nothing else changes.
C17_AddNeverOverwrites ==
  shp.pc = "added" => AddOk(shp.body, shp.added, shp.cfg.key_add.map)

\* an added key that the top level has and a nested object of an array lacks
C17_Witness ==
  /\ shp.pc = "added"
  /\ Keys(shp.cfg.key_add.map) = {"existing"}
  /\ shp.body = Obj(<<Entry("existing", Scalar("k")),
                      Entry("l", Arr(<<Scalar("1"),
                                       Obj(<<Entry("max_tokens", Scalar("5"))>>)>>))>>)
  /\ ValueAt(shp.added.e, "existing") = Scalar("k")
  /\ ValueAt(ValueAt(shp.added.e, "l").e[2].e, "existing") = Scalar("v")

\* C18: the request handed to the upstream client carries the selected
\* backend as its model, whatever model the caller named and whatever the
\* descriptor's tables do to the model key.
C18_ModelIsSelected ==
  shp.pc \in {"shaped", "converted"} =>
    /\ "model" \in Keys(shp.final.e)
    /\ ValueAt(shp.final.e, "model") = Scalar(shp.selected)
    /\ Len(shp.final.e) = Cardinality(Keys(shp.final.e))

\* the caller named a model and the descriptor renames another key to model
C18_Witness ==
  /\ shp.pc = "shaped"
  /\ "model" \in Keys(shp.body.e) /\ "existing" \in Keys(shp.body.e)
  /\ shp.cfg.key_rename.set
  /\ shp.cfg.key_rename.map = [k \in {"existing"} |-> "model"]
  /\ ValueAt(shp.shaped.e, "model") # Scalar(shp.selected)
  /\ ValueAt(shp.final.e, "model") = Scalar(shp.selected)


(***************************************************************************)
(* Cancellation.                                                           *)
(***************************************************************************)
\* C19, as claimed: a buffered request whose caller's token fired while the
\* handler awaited the upstream response ends with status 499.
C19_Buffered499 ==
  \A h \in Handlers :
    (hs[h].abortAt = "awaiting" /\ hs[h].hpc = "returned") => hs[h].status = 499

\* C20, as claimed: once the caller's token has fired no further upstream
\* attempt is started for the request.
C20_NoAttemptAfterAbort ==
  [][\A h \in Handlers : hs[h].aborted => hs'[h].log = hs[h].log]_vars

(***************************************************************************)
(* The single-attempt paths of the client.                                 *)
(***************************************************************************)
\* C21: a request dispatched while the shared failover list is empty makes
\* exactly one upstream attempt, to the backend the request names; an error of
\* that attempt reaches the caller with its own status, with no retry and no
\* backoff sleep; and no step of such a request changes
\* primary_cooldown_until.
C21_SingleAttempt ==
  [][\A h \in Handlers :
       hs'[h].mode = "single" =>
         /\ hs'[h].log = <<hs'[h].selected>>
         /\ hs'[h].sleeps = <<>> /\ hs'[h].cycle = 0
         /\ hs'[h].opc = "failed" =>
              hs'[h].err = (IF hs'[h].dlAt # 0 THEN 429 ELSE 500)
         /\ hs'[h] # hs[h] => cooldown' = cooldown]_vars

\* a single-backend server: one request failed with a day-limit error, which
\* its caller got as it was, and the cooldown was never armed
C21_Witness ==
  \E h \in Handlers :
    /\ hs[h].mode = "single" /\ hs[h].opc = "failed"
    /\ hs[h].dlAt = 1 /\ hs[h].err = 429
    /\ hs[h].hpc = "returned" /\ hs[h].status = 429
    /\ cooldown = 0


(***************************************************************************)
(* Descriptors without a context.                                          *)
(***************************************************************************)
\* C22, as claimed: a descriptor without a context field counts as having
\* context 128000, so selectBackend never returns it for a request of more
\* than 128000 estimated tokens.
C22_DefaultContext ==
  (SelCalled /\ sel_in.estimatedTokens > 128000) =>
    \A i \in DOMAIN sel_in.backends :
      sel_in.backends[i].context = 0 => sel_out # sel_in.backends[i].model


(***************************************************************************)
(* The cooldown and the backend that armed it.                             *)
(***************************************************************************)
\* C23, as claimed: while the cooldown armed by a day-limit error of backend
\* X is active, no handler selects X and no upstream attempt is sent to X.
C23_FailedBackendAvoided ==
  [][(now < cooldown /\ armedBy # None) =>
       \A h \in Handlers :
         /\ (hs[h].hpc = "idle" /\ hs'[h].hpc = "tokens")
              => hs'[h].selected # armedBy
         /\ Len(hs'[h].log) > Len(hs[h].log)
              => hs'[h].log[Len(hs'[h].log)] # armedBy]_vars


FirstColonSplit(s, provider, model) ==
  /\ s = provider \o <<":">> \o model
  /\ \A i \in DOMAIN provider : provider[i] # ":"

\* C25: for every backend string with at least one colon, the provider is
\* what stands before the first colon and the model id all that follows it,
\* further colons included; the Config constructor and providerConfigFor
\* yield the same split.
C25_ProviderModelSplit ==
  HasColon(prs.s) =>
    /\ prs.cfg.st \notin {"pending", "unused"} =>
         /\ prs.cfg.st = "ok"
         /\ FirstColonSplit(prs.s, prs.cfg.provider, prs.cfg.model)
    /\ prs.pcf.st \notin {"pending", "unused"} =>
         /\ prs.pcf.st = "ok"
         /\ FirstColonSplit(prs.s, prs.pcf.provider, prs.pcf.model)
    /\ (prs.cfg.st = "ok" /\ prs.pcf.st = "ok") => prs.cfg = prs.pcf

\* a string of the shape of synthetic:hf:zai-org/GLM-4.6, parsed by both
C25_Witness ==
  /\ prs.s = <<"p", ":", "m", ":", "m">>
  /\ prs.cfg = [st |-> "ok", provider |-> <<"p">>, model |-> <<"m", ":", "m">>]
  /\ prs.pcf = prs.cfg


(***************************************************************************)
(* The three shaping functions in other orders.                            *)
(***************************************************************************)
RenameOld(cfg) == IF cfg.key_rename.set THEN DOMAIN cfg.key_rename.map ELSE {}

RenameNew(cfg) ==
  IF cfg.key_rename.set
    THEN {cfg.key_rename.map[k] : k \in DOMAIN cfg.key_rename.map} ELSE {}

AddKeysOf(cfg) == IF cfg.key_add.set THEN Keys(cfg.key_add.map) ELSE {}

\* the delete names, the add keys, the old and the new names of the renames
\* are pairwise disjoint
NamesDisjoint(cfg) ==
  LET sets == <<DeleteSetOf(cfg), AddKeysOf(cfg), RenameOld(cfg), RenameNew(cfg)>>
  IN \A i, j \in 1..4 : i # j => sets[i] \cap sets[j] = {}

\* C26, as claimed: with pairwise disjoint names, delete, add and rename
\* applied in any of the six orders yield the tree that delete, add, rename
\* yields (trees compared without the order of their entries).
C26_AnyOrderAsClaimed ==
  (shp.pc = "ordered" /\ NamesDisjoint(shp.cfg)) =>
    \A i \in DOMAIN shp.orders : Abs(shp.orders[i]) = Abs(shp.orders[1])


\* some object of the value holds a key of names
RECURSIVE Mentions(_, _)
Mentions(x, names) ==
  IF x.t = "s" THEN FALSE
  ELSE IF x.t = "a" THEN \E i \in DOMAIN x.e : Mentions(x.e[i], names)
  ELSE \E i \in DOMAIN x.e : x.e[i].k \in names \/ Mentions(x.e[i].v, names)

\* no added value holds a name that is deleted or renamed
AddedValuesClear(cfg) ==
  cfg.key_add.set =>
    \A i \in DOMAIN cfg.key_add.map :
      ~Mentions(cfg.key_add.map[i].v, DeleteSetOf(cfg) \cup RenameOld(cfg))

\* C26, amended: the same when, besides, no added value holds a deleted or
\* renamed name inside.
C26_AnyOrder ==
  (shp.pc = "ordered" /\ NamesDisjoint(shp.cfg) /\ AddedValuesClear(shp.cfg)) =>
    \A i \in DOMAIN shp.orders : Abs(shp.orders[i]) = Abs(shp.orders[1])

\* a body with a nested object and an array; a key is deleted, another
\* added as an object, a third renamed, and the three tables are disjoint
C26_Witness ==
  /\ shp.pc = "ordered"
  /\ NamesDisjoint(shp.cfg) /\ AddedValuesClear(shp.cfg)
  /\ shp.cfg.key_delete = [set |-> TRUE, keys |-> {"max_tokens"}]
  /\ shp.cfg.key_add.set
  /\ shp.cfg.key_add.map = <<Entry("new", Obj(<<Entry("existing", Scalar("1"))>>))>>
  /\ shp.cfg.key_rename.set
  /\ shp.cfg.key_rename.map = [k \in {"o"} |-> "p"]
  /\ Keys(shp.body.e) = {"max_tokens", "o", "l"}
  /\ Keys(shp.orders[1].e) = {"new", "p", "l"}
  /\ "new" \in Keys(ValueAt(shp.orders[6].e, "p").e)


(***************************************************************************)
(* The translator on a minimal exchange.                                   *)
(***************************************************************************)
\* the request's user message is text only: a string or one text block
TextOnly(req) ==
  \/ req.content.kind = "string"
  \/ Len(req.content.blocks) = 1 /\ req.content.blocks[1].type = "text"

UserText(req) ==
  IF req.content.kind = "string" THEN req.content.text
  ELSE req.content.blocks[1].text

\* the response has one choice holding text and no tool call, and a usage
TextChoice(resp) ==
  resp.choices = 1 /\ resp.hasContent /\ resp.tool_calls = 0 /\ resp.hasUsage

\* what the claim states of the two translations
MinimalRoundTrip ==
  /\ tr.pc \in {"upstream", "answered"} =>
       \E i \in DOMAIN tr.oreq :
         tr.oreq[i] = [role |-> "user", content |-> StrContent(UserText(tr.req))]
  /\ tr.pc = "answered" =>
       /\ tr.cres.st = "ok"
       /\ tr.cres.content = <<[type |-> "text", text |-> tr.resp.content]>>
       /\ tr.cres.stop_reason = "end_turn"
       /\ tr.cres.output_tokens = tr.resp.completion_tokens

\* C27, as claimed: for a request of one user text message and a response of
\* one text choice with usage, the converted request holds a user message
\* whose content is the text, and the converted response has the one text
\* block, stop_reason end_turn and output_tokens = completion_tokens.
C27_RoundTripAsClaimed ==
  (TextOnly(tr.req) /\ TextChoice(tr.resp)) => MinimalRoundTrip

\* C27, amended: the same for a choice whose finish_reason is not length,
\* tool_calls or function_call.
C27_RoundTrip ==
  (TextOnly(tr.req) /\ TextChoice(tr.resp)
     /\ tr.resp.finish_reason \notin {"length", "tool_calls", "function_call"})
    => MinimalRoundTrip

\* a request with a system prompt and its text as one text block, answered
\* by a choice that stopped by itself
C27_Witness ==
  /\ tr.pc = "answered"
  /\ tr.req.system = "S" /\ tr.req.content.kind = "array"
  /\ TextOnly(tr.req) /\ UserText(tr.req) = "T"
  /\ TextChoice(tr.resp) /\ tr.resp.finish_reason = "stop"
  /\ tr.resp.content = "R" /\ tr.resp.completion_tokens = 2
  /\ Len(tr.oreq) = 2
  /\ tr.oreq[2] = [role |-> "user", content |-> StrContent("T")]
  /\ tr.cres = [st |-> "ok", content |-> <<[type |-> "text", text |-> "R"]>>,
                stop_reason |-> "end_turn", output_tokens |-> 2]


(***************************************************************************)
(* Rate limits.                                                            *)
(***************************************************************************)
\* upstream requests sent to a backend so far; the model's clock stays within
\* one hour of the start
SentTo(b) ==
  LET RECURSIVE Sum(_)
      Sum(H) == IF H = {} THEN 0
                ELSE LET h == CHOOSE x \in H : TRUE
                     IN Cardinality({i \in DOMAIN hs[h].log : hs[h].log[i] = b})
                          + Sum(H \ {h})
  IN Sum(Handlers)

\* C28, as claimed: the number of upstream requests sent to a backend never
\* exceeds its max_per_day within a day, nor its max_per_hour within an hour.
C28_RateLimits ==
  now < 3600 =>
    \A i \in DOMAIN backends :
      /\ SentTo(backends[i].model) <= RateLimits[backends[i].model].max_per_day
      /\ SentTo(backends[i].model) <= RateLimits[backends[i].model].max_per_hour


(***************************************************************************)
(* The order of the attempts of a cycle.                                   *)
(***************************************************************************)
\* C29: with failover active every attempt is either the first of a cycle,
\* sent to the head of the current attempt list, or follows the failure of
\* the attempt on the backend just before it in the list; the list holds no
\* backend twice, so a cycle tries each backend at most once and in list
\* order; and after an attempt has succeeded no attempt is made.
C29_CycleOrder ==
  [][\A h \in Handlers :
       hs'[h].mode = "failover" =>
         LET list == hs'[h].all_backends
             old == hs[h].log
             new == hs'[h].log
         IN /\ \A i, j \in DOMAIN list : i # j => list[i] # list[j]
            /\ hs[h].opc = "done" => new = old
            /\ new # old =>
                 /\ Len(new) = Len(old) + 1 /\ SubSeq(new, 1, Len(old)) = old
                 /\ hs'[h].opc = "fetch"
                 /\ \/ /\ hs[h].opc \in {"count", "sleep"}
                       /\ new[Len(new)] = list[1]
                    \/ /\ hs[h].opc \in {"fetch", "read"}
                       /\ list = hs[h].all_backends
                       /\ \E k \in 1..(Len(list) - 1) :
                            /\ old[Len(old)] = list[k]
                            /\ new[Len(new)] = list[k + 1]]_vars

\* a cycle in which the first two backends failed and the third answered
C29_Witness ==
  \E h \in Handlers :
    /\ hs[h].mode = "failover" /\ hs[h].opc = "done"
    /\ hs[h].cycle = 0 /\ ~hs[h].coolStart
    /\ hs[h].log = <<hs[h].primary>> \o hs[h].fo0
    /\ Len(hs[h].log) = 3


(***************************************************************************)
(* What changes the cooldown.                                              *)
(***************************************************************************)
\* C30, as claimed: primary_cooldown_until changes only in a step in which
\* an attempt of some request on that request's primary backend (the backend
\* selected for it, or the primary its orchestrator started with) fails with
\* a day-limit error.
C30_CooldownOnlyByPrimary ==
  [][cooldown' # cooldown =>
       \E h \in Handlers :
         /\ hs[h].opc \in {"fetch", "read"} /\ hs'[h] # hs[h]
         /\ budget'.dl < budget.dl
         /\ CurBackend(hs[h]) \in {hs[h].primary, hs[h].selected}]_vars

(***************************************************************************)
(* The streaming orchestrator after the handler has returned.              *)
(***************************************************************************)
\* C31, as claimed: for a streaming request whose orchestrator started with
\* the selected backend as its primary, a day-limit error from that backend
\* arms the cooldown, and every later cycle starts with that backend unless
\* the cooldown has been armed.
C31_StreamKeepsPrimary ==
  [][\A h \in Handlers :
       (hs'[h].body.stream /\ hs'[h].mode = "failover"
          /\ hs'[h].primary = hs'[h].selected) =>
         /\ (hs[h].dlAt = 0 /\ hs'[h].dlAt # 0) =>
              cooldown' = CooldownUntil(now)
         /\ (hs[h].opc = "sleep" /\ hs'[h].opc = "fetch" /\ cooldown = 0) =>
              hs'[h].log[Len(hs'[h].log)] = hs'[h].selected]_vars

(***************************************************************************)
(* Shaping in the Anthropic-dialect handler.                               *)
(***************************************************************************)
\* C32, as claimed: the request the messages handler sends upstream is the
\* converted request with the selected descriptor's deletions, additions and
\* renames applied in that order, routed to the selected backend, as in the
\* chat handler.
C32_MessagesShaped ==
  (shp.pc = "converted" /\ shp.dialect = "messages") =>
    shp.final = RouteModel(ShapeRequest(ConvertedRequest(shp.body), shp.cfg),
                           shp.selected)

(***************************************************************************)
(* One upstream attempt of the client: _do_fetch, the reading of the       *)
(* response body by its caller, the request timeout and cancel_request.    *)
(***************************************************************************)
\* request_timeout, in ticks of the model's clock
RequestTimeout == 2

\* how long the clock runs
MaxClock == 4

\* reads of a streamed body, calls of cancel_request
MaxBodyReads == 2

MaxCancels == 2

\* an attempt is in progress from the POST until its body has been read
InProgress(a) == a.pc \in {"fetch", "body"}

\* const ctrl = new AbortController(); setTimeout(() => ctrl.abort("timeout"),
\* this.timeout * 1000); activeControllers.set(requestId, ctrl); fetch(...)
Arm(a, streamDesired) ==
  [a EXCEPT !.pc = "fetch", !.stream = streamDesired, !.issuedAt = a.clk,
            !.timer = TRUE, !.registered = TRUE, !.aborted = FALSE]

\* finally { clearTimeout(timeout); activeControllers.delete(requestId) }
Finally(a) == [a EXCEPT !.timer = FALSE, !.registered = FALSE]

\* cancel_request: abort and forget the controller registered for the id
CancelRequest(a) ==
  IF a.registered
    THEN [a EXCEPT !.aborted = TRUE, !.registered = FALSE, !.ret = TRUE]
    ELSE [a EXCEPT !.ret = FALSE]

\* _do_fetch up to its await of fetch
DoFetch ==
  /\ att.pc = "idle"
  /\ \E streamDesired \in BOOLEAN : att' = Arm(att, streamDesired)
  /\ UNCHANGED <<selVars, sysVars, sse, auth, shp, prs, tr, ins, pay, tl>>

\* the upstream answers: _do_fetch returns the response (2xx) or throws, and
\* its finally block runs either way; the caller goes on to read the body
FetchSettles ==
  /\ att.pc = "fetch"
  /\ ~att.aborted
  /\ \E ok \in BOOLEAN :
       att' = [Finally(att) EXCEPT !.pc = IF ok THEN "body" ELSE "failed"]
  /\ UNCHANGED <<selVars, sysVars, sse, auth, shp, prs, tr, ins, pay, tl>>

\* the controller was aborted while fetch was pending: fetch rejects
FetchAborted ==
  /\ att.pc = "fetch"
  /\ att.aborted
  /\ att' = [Finally(att) EXCEPT !.pc = "failed"]
  /\ UNCHANGED <<selVars, sysVars, sse, auth, shp, prs, tr, ins, pay, tl>>

\* _create_stream: reader.read() delivers a chunk
BodyRead ==
  /\ att.pc = "body"
  /\ att.stream
  /\ ~att.aborted
  /\ att.reads < MaxBodyReads
  /\ att' = [att EXCEPT !.reads = @ + 1]
  /\ UNCHANGED <<selVars, sysVars, sse, auth, shp, prs, tr, ins, pay, tl>>

\* res.json() resolves, or reader.read() reports done
BodyEnd ==
  /\ att.pc = "body"
  /\ ~att.aborted
  /\ att' = [att EXCEPT !.pc = "done"]
  /\ UNCHANGED <<selVars, sysVars, sse, auth, shp, prs, tr, ins, pay, tl>>

\* the controller was aborted while the body was being read: the read rejects
BodyAborted ==
  /\ att.pc = "body"
  /\ att.aborted
  /\ att' = [att EXCEPT !.pc = "failed"]
  /\ UNCHANGED <<selVars, sysVars, sse, auth, shp, prs, tr, ins, pay, tl>>

\* the timer set by _do_fetch fires
TimeoutFires ==
  /\ att.timer
  /\ att.clk >= att.issuedAt + RequestTimeout
  /\ att' = [att EXCEPT !.timer = FALSE, !.aborted = TRUE]
  /\ UNCHANGED <<selVars, sysVars, sse, auth, shp, prs, tr, ins, pay, tl>>

\* the caller's signal fires: the listener _do_fetch added aborts the
\* controller (streams only: the buffered path passes no signal)
SignalAbort ==
  /\ InProgress(att)
  /\ att.stream
  /\ ~att.aborted
  /\ att' = [att EXCEPT !.aborted = TRUE]
  /\ UNCHANGED <<selVars, sysVars, sse, auth, shp, prs, tr, ins, pay, tl>>

\* somebody calls cancel_request with the id of the request; hit records
\* whether an attempt was in progress at that moment
CancelRequestCall ==
  /\ att.calls < MaxCancels
  /\ att' = [CancelRequest(att) EXCEPT !.calls = @ + 1,
                                       !.hit = InProgress(att)]
  /\ UNCHANGED <<selVars, sysVars, sse, auth, shp, prs, tr, ins, pay, tl>>

\* a second passes; a timer that is due fires first, and an aborted fetch or
\* read rejects first
TickAttempt ==
  /\ att.clk < MaxClock
  /\ ~(att.timer /\ att.clk >= att.issuedAt + RequestTimeout)
  /\ ~(att.aborted /\ InProgress(att))
  /\ att' = [att EXCEPT !.clk = @ + 1]
  /\ UNCHANGED <<selVars, sysVars, sse, auth, shp, prs, tr, ins, pay, tl>>

InitAttempt ==
  /\ att = NoAttempt("idle")
  /\ SelIdle
  /\ SysIdle
  /\ SseIdle
  /\ AuthIdle
  /\ ShpIdle
  /\ PrsIdle
  /\ TrIdle
  /\ InsIdle
  /\ PayIdle
  /\ TlIdle

NextAttempt ==
  \/ DoFetch
  \/ FetchSettles
  \/ FetchAborted
  \/ BodyRead
  \/ BodyEnd
  \/ BodyAborted
  \/ TimeoutFires
  \/ SignalAbort
  \/ CancelRequestCall
  \/ TickAttempt

SpecAttempt == InitAttempt /\ [][NextAttempt]_vars

\* C33, as claimed: an attempt in progress, its body included, is never older
\* than the request timeout.
C33_TimeoutBoundsAttempt ==
  InProgress(att) => att.clk <= att.issuedAt + RequestTimeout

\* C34, as claimed: cancel_request called while an attempt is in progress
\* (pending fetch or body being read) aborts it and returns true, unless the
\* attempt was aborted before the call; called when no attempt is in progress
\* it returns false and changes nothing else.
C34_CancelInFlight ==
  [][att'.calls = att.calls + 1 =>
       IF InProgress(att)
         THEN att'.aborted /\ (~att.aborted => att'.ret)
         ELSE /\ ~att'.ret
              /\ att' = [att EXCEPT !.calls = att'.calls, !.ret = FALSE,
                                    !.hit = att'.hit]]_vars

(***************************************************************************)
(* Termination of the orchestrator.                                        *)
(***************************************************************************)
\* the steps of invocation h that the assumption of the claim promises: the
\* token count resolves, the attempt in flight succeeds or fails, the body of
\* a stream ends, the backoff sleep elapses
Progress(h) ==
  \/ AfterCount(h)
  \/ BufferedOk(h)
  \/ StreamOpen(h)
  \/ StreamEnd(h)
  \/ \E kind \in {"err", "dl"} : AttemptFail(h, kind)
  \/ Wake(h)

\* one request alone with failures for all its cycles, every promised step
\* eventually taken and time passing
LiveRetry ==
  /\ InitRetry
  /\ [][Next]_vars
  /\ \A h \in Handlers : WF_vars(Progress(h))
  /\ WF_vars(Tick)

Running(h) == hs[h].opc \in {"count", "fetch", "read", "sleep"}

\* C35: an orchestrator invocation that is running eventually ends, with a
\* response or with an error; the error of the failover variant is the 503
\* thrown when the 10th cycle has ended, and no invocation makes more
\* attempts than ten cycles over the catalog hold.
C35_Terminates ==
  /\ \A h \in Handlers : Running(h) ~> hs[h].opc \in {"done", "failed"}
  /\ [](\A h \in Handlers : Len(hs[h].log) <= max_cycles * Len(backends))
  /\ [](\A h \in Handlers :
          (hs[h].opc = "failed" /\ hs[h].mode = "failover") =>
            hs[h].err = 503 /\ hs[h].cycle = max_cycles)

\* a request that failed in every cycle and one that was answered after a
\* backoff sleep
C35_Witness ==
  \E h \in Handlers :
    /\ hs[h].mode = "failover"
    /\ hs[h].opc = "failed"
    /\ hs[h].cycle = max_cycles
    /\ Len(hs[h].sleeps) = max_cycles - 1

(***************************************************************************)
(* The failover list a handler installs.                                   *)
(***************************************************************************)
\* the models of a catalog, in catalog order
CatalogModels(cat) == [i \in 1..Len(cat) |-> cat[i].model]

MaxFrames == 3

\* a chunk: whether its trimmed text starts with "data:", what follows the
\* prefix (nothing, the [DONE] sentinel, text that is not JSON, a JSON object),
\* and the usage member of that object (absent, null, or an object that may
\* hold completion_tokens and output_tokens)
Chunk(data, payload, usage, hasCt, ct, hasOt, ot) ==
  [data |-> data, payload |-> payload, usage |-> usage,
   hasCt |-> hasCt, ct |-> ct, hasOt |-> hasOt, ot |-> ot]

InsChunks ==
  { Chunk(FALSE, "json", "object", TRUE, 1, FALSE, 0),
    Chunk(TRUE, "empty", "absent", FALSE, 0, FALSE, 0),
    Chunk(TRUE, "done", "absent", FALSE, 0, FALSE, 0),
    Chunk(TRUE, "text", "absent", FALSE, 0, FALSE, 0),
    Chunk(TRUE, "json", "absent", FALSE, 0, FALSE, 0),
    Chunk(TRUE, "json", "null", FALSE, 0, FALSE, 0),
    Chunk(TRUE, "json", "object", FALSE, 0, FALSE, 0),
    Chunk(TRUE, "json", "object", FALSE, 0, TRUE, 1) } \cup
  { Chunk(TRUE, "json", "object", TRUE, n, hasOt, 1) :
      n \in 0..MaxUsage, hasOt \in BOOLEAN }

\* the first usage object seen is kept
CaptureMutFirst(usageStats, chunk) ==
  IF /\ chunk.data
     /\ chunk.payload \notin {"empty", "done"}
     /\ chunk.payload = "json"
     /\ chunk.usage = "object"
     /\ ~usageStats.set
    THEN [set |-> TRUE, hasCt |-> chunk.hasCt, ct |-> chunk.ct,
          hasOt |-> chunk.hasOt, ot |-> chunk.ot]
    ELSE usageStats

\* the body of the for await loop before the yield: trimmed.startsWith("data:"),
\* payload && payload !== "[DONE]", JSON.parse in a try, and
\* if (parsed?.usage) usageStats = parsed.usage
Capture(usageStats, chunk) ==
  IF /\ chunk.data
     /\ chunk.payload \notin {"empty", "done"}
     /\ chunk.payload = "json"
     /\ chunk.usage = "object"
    THEN [set |-> TRUE, hasCt |-> chunk.hasCt, ct |-> chunk.ct,
          hasOt |-> chunk.hasOt, ot |-> chunk.ot]
    ELSE usageStats

\* the finally block: completion_tokens = usageStats?.completion_tokens ??
\* usageStats?.output_tokens ?? null, logged as output_tokens
Report(usageStats) ==
  IF usageStats.set /\ usageStats.hasCt
    THEN [reported |-> TRUE, output_tokens |-> usageStats.ct]
  ELSE IF usageStats.set /\ usageStats.hasOt
    THEN [reported |-> TRUE, output_tokens |-> usageStats.ot]
  ELSE [reported |-> FALSE, output_tokens |-> 0]

\* one turn of the for await loop: the upstream yields a chunk, the wrapper
\* inspects it and yields it to sseResponse
InsPull ==
  /\ ins.pc = "run"
  /\ ins.pos < Len(ins.up)
  /\ LET chunk == ins.up[ins.pos + 1]
     IN ins' = [ins EXCEPT !.pos = @ + 1,
                           !.usageStats = Capture(@, chunk),
                           !.out = Append(@, chunk)]
  /\ UNCHANGED <<selVars, sysVars, sse, auth, shp, prs, tr, att, pay, tl>>

\* the upstream ends or throws after its last chunk: the finally block logs,
\* then the wrapper returns or the error goes on to sseResponse
InsEnd ==
  /\ ins.pc = "run"
  /\ ins.pos = Len(ins.up)
  /\ ins' = [ins EXCEPT !.pc = IF ins.end = "error" THEN "threw" ELSE "done",
                        !.logs = Append(@, Report(ins.usageStats))]
  /\ UNCHANGED <<selVars, sysVars, sse, auth, shp, prs, tr, att, pay, tl>>

\* the caller went away: enqueue throws in sseResponse, the for await there
\* calls return() on the wrapper, which is suspended at its yield, and the
\* finally block logs
InsReturn ==
  /\ ins.pc = "run"
  /\ ins.pos > 0
  /\ ins' = [ins EXCEPT !.pc = "returned",
                        !.logs = Append(@, Report(ins.usageStats))]
  /\ UNCHANGED <<selVars, sysVars, sse, auth, shp, prs, tr, att, pay, tl>>

InitInstrument ==
  /\ \E up \in SeqsUpTo(InsChunks, MaxFrames), end \in {"normal", "error"} :
       ins = [pc |-> "run", up |-> up, end |-> end, pos |-> 0, out |-> <<>>,
              usageStats |-> NoUsage, logs |-> <<>>]
  /\ SelIdle
  /\ SysIdle
  /\ SseIdle
  /\ AuthIdle
  /\ ShpIdle
  /\ PrsIdle
  /\ TrIdle
  /\ AttIdle
  /\ PayIdle
  /\ TlIdle

NextInstrument == InsPull \/ InsEnd \/ InsReturn

SpecInstrument == InitInstrument /\ [][NextInstrument]_vars

\* a data frame whose JSON payload carries a usage object
CarriesUsage(chunk) ==
  chunk.data /\ chunk.payload = "json" /\ chunk.usage = "object"

\* C37: the wrapper has yielded exactly the chunks the upstream has produced,
\* in order; it has logged nothing while the stream runs and exactly once when
\* it has ended, normally, with an error or by the caller's going away; the
\* output tokens logged are the completion_tokens of the last yielded data
\* frame that carried a usage object, when that object has completion_tokens,
\* and nothing is reported when no frame carried one.
C37_InstrumentedStream ==
  LET withUsage == {i \in DOMAIN ins.out : CarriesUsage(ins.out[i])}
  IN /\ ins.pc # "unused" => ins.out = SubSeq(ins.up, 1, ins.pos)
     /\ ins.pc = "run" => ins.logs = <<>>
     /\ ins.pc \in {"done", "threw"} => ins.out = ins.up
     /\ ins.pc \in {"done", "threw", "returned"} =>
          /\ Len(ins.logs) = 1
          /\ withUsage = {} => ~ins.logs[1].reported
          /\ withUsage # {} =>
               LET last == ins.out[MaxOf(withUsage)]
               IN last.hasCt =>
                    /\ ins.logs[1].reported
                    /\ ins.logs[1].output_tokens = last.ct

\* a stream that ended with an error after two frames with different usage
\* objects and a [DONE] sentinel
C37_Witness ==
  /\ ins.pc = "threw"
  /\ Len(ins.up) = MaxFrames
  /\ CarriesUsage(ins.up[1]) /\ CarriesUsage(ins.up[2])
  /\ ins.up[1].hasCt /\ ins.up[2].hasCt /\ ins.up[1].ct # ins.up[2].ct
  /\ ins.up[3].payload = "done"
  /\ ins.logs = <<[reported |-> TRUE, output_tokens |-> ins.up[2].ct]>>

(***************************************************************************)
(* The body of the POST: _do_fetch from its payload to bodyPayload.        *)
(***************************************************************************)
\* the fields the Responses API does not accept
Unsupported ==
  {"temperature", "top_p", "n", "presence_penalty", "frequency_penalty",
   "logit_bias", "user", "response_format"}

\* the keys a payload handed to _do_fetch may hold, in the order they are laid
\* out in it
PayloadKeys ==
  <<"messages", "max_tokens", "tools", "temperature", "top_p", "n",
    "presence_penalty", "frequency_penalty", "logit_bias", "user",
    "response_format">>

\* the payload with the keys ks, each holding a value of the caller
PayloadOf(ks) ==
  Obj([i \in 1..Len(SelectSeq(PayloadKeys, LAMBDA k : k \in ks)) |->
         Entry(SelectSeq(PayloadKeys, LAMBDA k : k \in ks)[i], Scalar("v"))])

\* the model names behind the provider prefix
GPT5 == <<"g", "p", "t", "-", "5">>

PayModels == {GPT5, GPT5 \o <<"-", "m">>, <<"g", "p", "t", "-", "4">>, <<"o", "3">>}

\* isResponsesAPI: modelName?.startsWith("gpt-5")
isResponsesAPI(modelName) == startsWith(modelName, GPT5)

\* delete obj[key]
DeleteKey(entries, key) == SelectSeq(entries, LAMBDA en : en.k # key)

\* obj[key] = value when obj[key] is there
SetIfPresent(entries, key, value) ==
  IF key \in Keys(entries) THEN ObjSet(entries, key, value) ELSE entries

\* for (const k of unsupported) delete payload[k]
RECURSIVE cleanResponsesPayload(_, _)
cleanResponsesPayload(entries, ks) ==
  IF ks = {} THEN entries
  ELSE LET k == CHOOSE x \in ks : TRUE
       IN cleanResponsesPayload(DeleteKey(entries, k), ks \ {k})

\* bodyPayload = { ...payload, model }; for the Responses API the tools are
\* re-encoded, the messages flattened into input and max_tokens deleted; for
\* Chat Completions a stream asks for its usage
BodyPayload(payload, modelNameForAPI, streamDesired) ==
  LET withModel == ObjSet(payload.e, "model", Scalar(modelNameForAPI))
  IN IF isResponsesAPI(modelNameForAPI)
       THEN LET tools == SetIfPresent(withModel, "tools", Scalar("responses tools"))
                input == IF "messages" \in Keys(tools)
                           THEN DeleteKey(ObjSet(tools, "input", Scalar("flat")),
                                          "messages")
                           ELSE tools
            IN Obj(DeleteKey(input, "max_tokens"))
     ELSE IF streamDesired
       THEN Obj(ObjSet(ObjSet(withModel, "stream", Scalar("true")),
                       "stream_options",
                       Obj(<<Entry("include_usage", Scalar("true"))>>)))
     ELSE Obj(withModel)

\* _do_fetch up to the POST
BuildBody ==
  /\ pay.pc = "payload"
  /\ pay' = [pay EXCEPT !.pc = "posted",
                        !.useResponses = isResponsesAPI(pay.model),
                        !.body = BodyPayload(pay.payload, pay.model,
                                             pay.streamDesired)]
  /\ UNCHANGED <<selVars, sysVars, sse, auth, shp, prs, tr, att, ins, tl>>

\* cleanResponsesPayload called on a payload
CleanCall ==
  /\ pay.pc = "payload"
  /\ pay' = [pay EXCEPT !.pc = "cleaned",
                        !.body = Obj(cleanResponsesPayload(pay.payload.e,
                                                           Unsupported))]
  /\ UNCHANGED <<selVars, sysVars, sse, auth, shp, prs, tr, att, ins, tl>>

InitPayload ==
  /\ \E ks \in SUBSET Range(PayloadKeys), m \in PayModels, s \in BOOLEAN :
       pay = [pc |-> "payload", model |-> m, streamDesired |-> s,
              payload |-> PayloadOf(ks), useResponses |-> FALSE,
              body |-> Obj(<<>>)]
  /\ SelIdle
  /\ SysIdle
  /\ SseIdle
  /\ AuthIdle
  /\ ShpIdle
  /\ PrsIdle
  /\ TrIdle
  /\ AttIdle
  /\ InsIdle
  /\ TlIdle

NextPayload == BuildBody \/ CleanCall

SpecPayload == InitPayload /\ [][NextPayload]_vars

\* C38, as claimed: the body posted for a model whose name begins with gpt-5
\* holds none of the fields the Responses API does not accept.
C38_ResponsesStripped ==
  (pay.pc = "posted" /\ startsWith(pay.model, GPT5)) =>
    Keys(pay.body.e) \cap Unsupported = {}

(***************************************************************************)
(* Capabilities of the backends a request is sent to.                      *)
(***************************************************************************)
\* the selector would accept backend b for this body if b stood alone
Qualifies(b, body) ==
  \E i \in DOMAIN backends :
    /\ backends[i].model = b
    /\ selectBackend(<<backends[i]>>, body, estimateTokens(body), {}) = b

\* C39, as claimed: every upstream attempt of a request goes to a backend that
\* satisfies the request's selection constraints.
C39_AttemptsQualify ==
  \A h \in Handlers :
    \A i \in DOMAIN hs[h].log : Qualifies(hs[h].log[i], hs[h].body)

(***************************************************************************)
(* convert_claude_to_openai: the loop over the messages of a conversation  *)
(* with tool calls and tool results.                                       *)
(***************************************************************************)
\* messages of a conversation
MaxMsgs == 3

\* a content block: text, a tool_use with its id, a tool_result with the
\* tool_use_id it answers
Block(type, id) == [type |-> type, text |-> IF type = "text" THEN "T" ELSE "", id |-> id]

\* a message of the Anthropic request
Msg(role, content) == [role |-> role, content |-> content]

\* a message of the converted request
OutMsg(role, content, tool_call_id, tool_calls) ==
  [role |-> role, content |-> content, tool_call_id |-> tool_call_id,
   tool_calls |-> tool_calls]

\* content: null
NullContent == [kind |-> "null", text |-> "", blocks |-> <<>>]

\* msg.content.some(b => b?.type === "tool_result") on an array content
HasToolResult(msg) ==
  /\ msg.content.kind = "array"
  /\ \E i \in DOMAIN msg.content.blocks : msg.content.blocks[i].type = "tool_result"

\* convert_claude_assistant_message: the text blocks joined, the tool_use
\* blocks as tool_calls
convert_claude_assistant_message(msg) ==
  IF msg.content.kind = "string"
    THEN OutMsg("assistant", msg.content, "", <<>>)
  ELSE LET texts == SelectSeq(msg.content.blocks, LAMBDA b : b.type = "text")
           uses == SelectSeq(msg.content.blocks, LAMBDA b : b.type = "tool_use")
       IN OutMsg("assistant",
                 IF texts = <<>> THEN NullContent ELSE StrContent("T"),
                 "", [i \in DOMAIN uses |-> uses[i].id])

\* convert_claude_tool_results: one role:tool message per tool_result block
convert_claude_tool_results(msg) ==
  IF msg.content.kind = "array"
    THEN LET results == SelectSeq(msg.content.blocks,
                                  LAMBDA b : b.type = "tool_result")
         IN [i \in DOMAIN results |->
               OutMsg("tool", StrContent("R"), results[i].id, <<>>)]
    ELSE <<>>

\* convert_claude_to_openai_user_or_toolresult: a user message without
\* tool_result blocks is converted as a user message, one with tool_result
\* blocks becomes an empty user message
convert_claude_to_openai_user_or_toolresult(messages, idx) ==
  LET msg == messages[idx]
  IN IF msg.role # "user" \/ ~HasToolResult(msg)
       THEN OutMsg("user", convert_claude_user_message(msg.content).content,
                   "", <<>>)
       ELSE OutMsg("user", StrContent(""), "", <<>>)

\* the for loop of convert_claude_to_openai from message i on: a user message
\* is converted where it stands; an assistant message is converted and, when
\* the next message is a user message with tool_result blocks, that message is
\* consumed and expanded into role:tool messages
RECURSIVE ConvertMessages(_, _)
ConvertMessages(messages, i) ==
  IF i > Len(messages) THEN <<>>
  ELSE LET msg == messages[i]
       IN IF msg.role = "user"
            THEN <<convert_claude_to_openai_user_or_toolresult(messages, i)>>
                   \o ConvertMessages(messages, i + 1)
            ELSE <<convert_claude_assistant_message(msg)>>
                   \o (IF i + 1 <= Len(messages)
                          /\ messages[i + 1].role = "user"
                          /\ HasToolResult(messages[i + 1])
                         THEN convert_claude_tool_results(messages[i + 1])
                                \o ConvertMessages(messages, i + 2)
                         ELSE ConvertMessages(messages, i + 1))

\* the contents of user and assistant messages of a conversation with tools
TlUserContents ==
  { StrContent("T"),
    ArrContent(<<Block("text", "")>>),
    ArrContent(<<Block("tool_result", "t1")>>),
    ArrContent(<<Block("tool_result", "t1"), Block("tool_result", "t2")>>),
    ArrContent(<<Block("text", ""), Block("tool_result", "t1")>>),
    ArrContent(<<Block("tool_result", "t2"), Block("text", "")>>) }

TlAssistantContents ==
  { StrContent("T"),
    ArrContent(<<Block("tool_use", "t1")>>),
    ArrContent(<<Block("text", ""), Block("tool_use", "t1"),
                 Block("tool_use", "t2")>>) }

TlMessages ==
  {Msg("user", c) : c \in TlUserContents}
    \cup {Msg("assistant", c) : c \in TlAssistantContents}

\* messages handler: the messages of the request are converted
ConvertConversation ==
  /\ tl.pc = "request"
  /\ tl' = [tl EXCEPT !.pc = "converted",
                      !.out = ConvertMessages(tl.messages, 1)]
  /\ UNCHANGED <<selVars, sysVars, sse, auth, shp, prs, tr, att, ins, pay>>

InitTools ==
  /\ \E ms \in SeqsUpTo(TlMessages, MaxMsgs) :
       tl = [pc |-> "request", messages |-> ms, out |-> <<>>]
  /\ SelIdle
  /\ SysIdle
  /\ SseIdle
  /\ AuthIdle
  /\ ShpIdle
  /\ PrsIdle
  /\ TrIdle
  /\ AttIdle
  /\ InsIdle
  /\ PayIdle

NextTools == ConvertConversation

SpecTools == InitTools /\ [][NextTools]_vars

\* the tool_use_ids of the tool_result blocks of a conversation, in order
RECURSIVE ToolResultIds(_)
ToolResultIds(messages) ==
  IF messages = <<>> THEN <<>>
  ELSE (IF messages[1].content.kind = "array"
          THEN LET rs == SelectSeq(messages[1].content.blocks,
                                   LAMBDA b : b.type = "tool_result")
               IN [i \in DOMAIN rs |-> rs[i].id]
          ELSE <<>>)
         \o ToolResultIds(Tail(messages))

\* the tool_call_ids of the role:tool messages of a converted request
ToolCallIds(out) ==
  LET ts == SelectSeq(out, LAMBDA m : m.role = "tool")
  IN [i \in DOMAIN ts |-> ts[i].tool_call_id]

\* C40, as claimed: the role:tool messages of the converted request answer
\* the tool_result blocks of the conversation one for one, in block order,
\* whatever precedes the user message that carries them.
C40_NoToolResultLost ==
  tl.pc = "converted" => ToolCallIds(tl.out) = ToolResultIds(tl.messages)

=============================================================================
